---- MODULE Spec2Model ----
(***************************************************************************)
(* trellm: the per-ticket execution pipeline.                              *)
(*                                                                         *)
(*   SpecRun  one call of ClaudeRunner.run (src/trellm/claude.py): the     *)
(*            proactive compaction, the attempts, the recovery             *)
(*            compactions, the backoff sleeps and the cost query, with    *)
(*            every outcome of every subprocess call drawn from the        *)
(*            outcomes the code distinguishes.  `calls` records the calls  *)
(*            of _run_compact, _run_once, asyncio.sleep and _run_cost in   *)
(*            the order run() made them.                                   *)
(*   Spec     the polling loop of src/trellm/__main__.py: background       *)
(*            tasks, the per-project locks, the in-flight set, and each    *)
(*            task's run() as the same state machine.                      *)
(***************************************************************************)
EXTENDS Integers, Sequences, FiniteSets, TLC

\* ------------------------------------------------------------------ bounds
\* Session handles are 1..NumHandles; None (no handle) is 0.
NumHandles == 2

\* ------------------------------------------------------- program constants
\* ClaudeRunner.MAX_RETRIES
MAX_RETRIES == 2
\* the default backoff of run() when no reset time was recovered
DEFAULT_SLEEP == 300

\* ------------------------------------------------------------------ values
None == 0
Handles == 1..NumHandles
OptHandle == Handles \cup {None}

\* The cards of the board (their ids).
Cards == {"c1", "c2"}
NoCard == "none"
Projects == {"pA", "pB"}
\* Config.get_initial_session_id: the session id of the config file, if any
InitialSession(p) == IF p = "pB" THEN 1 ELSE None
\* The handles the agent emits in Spec.
PollHandles == {1}

\* RateLimitError.reset_seconds: None, or the seconds the classifier recovered
NoReset == -1
ResetValues == {NoReset, 0, 60}

VARIABLES
    run,     \* SpecRun: the locals of the one call of run()
    calls,   \* SpecRun: the calls run() has made, in order, with their results
    \* Spec, the board: the cards of the TODO list, each card's dateLastActivity
    \* and the project its name starts with (parse_project)
    todo, activity, project_of,
    \* Spec, the state file: card -> processed_at (0: absent), project -> session
    processed, sessions,
    \* Spec, module state of __main__: _processing_cards, _running_tasks,
    \* the tasks themselves (by card), _project_locks (holder) and their waiters
    processing_cards, running_tasks, tasks, lock, waiters,
    \* Spec, run_polling_loop: where it is, the cards it fetched, whether its
    \* finally block has run
    poll_pc, poll_cards, down,
    \* SpecLedger and SpecHistory, the state file: its "stats" object, the
    \* current UTC date (a day number), and the number of record_cost calls
    \* made so far (the instant of the latest one)
    stats, today, clock,
    \* SpecLedger: the number of times the date has changed
    passes,
    \* SpecParse, one call of a parsing function: its inputs, its outcome and
    \* whether it has been made
    given, returned, called

runVars == <<run, calls>>
ledgerVars == <<stats, today, clock, passes>>
parseVars == <<given, returned, called>>
pollVars == <<todo, activity, project_of, processed, sessions, processing_cards,
              running_tasks, tasks, lock, waiters, poll_pc, poll_cards, down>>
vars == <<run, calls, todo, activity, project_of, processed, sessions, processing_cards,
          running_tasks, tasks, lock, waiters, poll_pc, poll_cards, down,
          stats, today, clock, passes, given, returned, called>>

\* -------------------------------------------------------------- the ledger
\* StateManager's "stats" object: the global bucket, the per-project buckets,
\* the date/period buckets ("by_date") and the ticket history.

\* The counters of a bucket (StateManager._empty_bucket).
BucketFields ==
    {"total_cost_cents", "total_tickets", "total_api_duration_seconds",
     "total_wall_duration_seconds", "total_lines_added", "total_lines_removed",
     "total_input_tokens", "total_output_tokens", "total_cache_creation_tokens",
     "total_cache_read_tokens"}
EmptyBucket == [f \in BucketFields |-> 0]

\* StateManager._empty_stats
EmptyStats ==
    [global |-> EmptyBucket, by_project |-> <<>>, by_date |-> <<>>,
     ticket_history |-> <<>>]

\* The capacity of the ticket history.
HISTORY_LIMIT == 100
\* The oldest age in days of a daily bucket, and of a weekly bucket.
DAILY_DAYS == 30
WEEKLY_DAYS == 90

\* StateManager._aggregate_into_bucket
aggregate_into_bucket(bucket, other) == [f \in BucketFields |-> bucket[f] + other[f]]

\* Dates are day numbers, day 0 being Monday 2024-01-01.
Years == 2024..2027
IsLeap(y) == (y % 4 = 0 /\ y % 100 # 0) \/ y % 400 = 0
YearLen(y) == IF IsLeap(y) THEN 366 ELSE 365
RECURSIVE YearStart(_)
YearStart(y) == IF y <= 2024 THEN 0 ELSE YearStart(y - 1) + YearLen(y - 1)
YearOf(d) == CHOOSE y \in Years : YearStart(y) <= d /\ d < YearStart(y + 1)
MonthLen(y, m) ==
    IF m = 2 THEN (IF IsLeap(y) THEN 29 ELSE 28)
    ELSE IF m \in {4, 6, 9, 11} THEN 30 ELSE 31
RECURSIVE MonthStart(_, _)
MonthStart(y, m) ==
    IF m = 1 THEN YearStart(y) ELSE MonthStart(y, m - 1) + MonthLen(y, m - 1)
MonthOf(d) ==
    CHOOSE m \in 1..12 :
        MonthStart(YearOf(d), m) <= d /\ d < MonthStart(YearOf(d), m) + MonthLen(YearOf(d), m)
\* date.weekday(): 0 is Monday
Weekday(d) == d % 7

\* The keys of by_date: "YYYY-MM-DD", "week-YYYY-WW" and "month-YYYY-MM".
DayKey(d) == <<"day", d, 0>>
\* Mutant: the weekly key takes the calendar year of the date.
WeekKey_CalendarYear(d) ==
    <<"week", YearOf(d), ((d - Weekday(d) + 3) - YearStart(YearOf(d - Weekday(d) + 3))) \div 7 + 1>>
\* date.isocalendar(): the ISO year and week are those of the Thursday of the
\* date's week.
IsoYear(d) == YearOf(d - Weekday(d) + 3)
IsoWeek(d) == ((d - Weekday(d) + 3) - YearStart(IsoYear(d))) \div 7 + 1
WeekKey(d) == <<"week", IsoYear(d), IsoWeek(d)>>
MonthKey(d) == <<"month", YearOf(d), MonthOf(d)>>

\* strptime(f"{year}-W{week:02d}-1", "%Y-W%W-%w"): %W counts weeks from the
\* first Monday of the calendar year, the days before it being week 0.
WeekStart(key) ==
    YearStart(key[2]) + ((7 - Weekday(YearStart(key[2]))) % 7) + 7 * (key[3] - 1)

RECURSIVE SumBuckets(_, _)
\* The field-wise sum of the buckets of by_date under the keys of S.
SumBuckets(by_date, S) ==
    IF S = {} THEN EmptyBucket
    ELSE LET k == CHOOSE x \in S : TRUE
         IN aggregate_into_bucket(SumBuckets(by_date, S \ {k}), by_date[k])

\* "Merge with existing", or add the new bucket.
MergeInto(by_date, buckets) ==
    [k \in DOMAIN by_date \cup DOMAIN buckets |->
        IF k \in DOMAIN by_date /\ k \in DOMAIN buckets
        THEN aggregate_into_bucket(by_date[k], buckets[k])
        ELSE IF k \in DOMAIN by_date THEN by_date[k] ELSE buckets[k]]

\* Mutant: a bucket that is rolled up is removed but not added to its target.
rollup_old_dates_Drops(by_date, now) ==
    [k \in {k \in DOMAIN by_date :
              ~(k[1] = "day" /\ now - k[2] > DAILY_DAYS)
              /\ ~(k[1] = "week" /\ now - WeekStart(k) > WEEKLY_DAYS)} |-> by_date[k]]

\* Mutant: a daily bucket is rolled up from its 30th day on.
rollup_old_dates_DayEarly(by_date, now) ==
    LET daily == {k \in DOMAIN by_date : k[1] = "day"}
        to_week == {k \in daily : now - k[2] >= DAILY_DAYS /\ now - k[2] <= WEEKLY_DAYS}
        to_month == {k \in daily : now - k[2] > WEEKLY_DAYS}
        weekly_buckets ==
            [w \in {WeekKey(k[2]) : k \in to_week} |->
                SumBuckets(by_date, {k \in to_week : WeekKey(k[2]) = w})]
        monthly_buckets ==
            [m \in {MonthKey(k[2]) : k \in to_month} |->
                SumBuckets(by_date, {k \in to_month : MonthKey(k[2]) = m})]
        kept == [k \in DOMAIN by_date \ (to_week \cup to_month) |-> by_date[k]]
    IN MergeInto(MergeInto(kept, weekly_buckets), monthly_buckets)

\* StateManager._rollup_old_dates on the date `now`.
rollup_old_dates(by_date, now) ==
    LET daily == {k \in DOMAIN by_date : k[1] = "day"}
        to_week == {k \in daily : now - k[2] > DAILY_DAYS /\ now - k[2] <= WEEKLY_DAYS}
        to_month == {k \in daily : now - k[2] > WEEKLY_DAYS}
        old_weeks == {k \in DOMAIN by_date :
                         k[1] = "week" /\ now - WeekStart(k) > WEEKLY_DAYS}
        weekly_buckets ==
            [w \in {WeekKey(k[2]) : k \in to_week} |->
                SumBuckets(by_date, {k \in to_week : WeekKey(k[2]) = w})]
        monthly_buckets ==
            [m \in {MonthKey(k[2]) : k \in to_month}
                      \cup {MonthKey(WeekStart(k)) : k \in old_weeks} |->
                aggregate_into_bucket(
                    SumBuckets(by_date, {k \in to_month : MonthKey(k[2]) = m}),
                    SumBuckets(by_date, {k \in old_weeks : MonthKey(WeekStart(k)) = m}))]
        to_remove == to_week \cup to_month \cup old_weeks
        kept == [k \in DOMAIN by_date \ to_remove |-> by_date[k]]
    IN MergeInto(MergeInto(kept, weekly_buckets), monthly_buckets)

\* StateManager._save: every persist runs the rollup.
save(st, now) == [st EXCEPT !.by_date = rollup_old_dates(@, now)]

\* StateManager.get_stats_for_period on the date `now`: the sum of the daily
\* buckets of the last `days` days, today included.
get_stats_for_period(st, now, days) ==
    SumBuckets(st.by_date,
               {k \in DOMAIN st.by_date : k[1] = "day" /\ 0 <= now - k[2] /\ now - k[2] < days})

\* The parsed amounts of one ticket, by bucket field.
UsageFields == BucketFields \ {"total_tickets"}
Usages ==
    {[f \in UsageFields |->
        CASE f = "total_cost_cents" -> 150
          [] f = "total_api_duration_seconds" -> 150
          [] f = "total_wall_duration_seconds" -> 315
          [] f = "total_lines_added" -> 100
          [] f = "total_lines_removed" -> 50
          [] OTHER -> 7],
     [f \in UsageFields |-> IF f = "total_cost_cents" THEN 1 ELSE 0]}

\* What record_cost adds to each of the three buckets.
Amounts(usage) ==
    [f \in BucketFields |-> IF f = "total_tickets" THEN 1 ELSE usage[f]]

\* The record appended to the ticket history; processed_at is the instant.
TicketRecord(card_id, project, usage, at) ==
    [card_id |-> card_id, project |-> project, usage |-> usage, processed_at |-> at]

\* Mutant: the history keeps its oldest records.
TrimHistory_KeepsOldest(h) ==
    IF Len(h) > HISTORY_LIMIT THEN SubSeq(h, 1, HISTORY_LIMIT) ELSE h

\* "Keep only last 100 tickets in history".
TrimHistory(h) ==
    IF Len(h) > HISTORY_LIMIT THEN SubSeq(h, Len(h) - HISTORY_LIMIT + 1, Len(h)) ELSE h

\* The bucket under key k, or an empty one.
BucketAt(buckets, k) == IF k \in DOMAIN buckets THEN buckets[k] ELSE EmptyBucket
Put(buckets, k, b) ==
    [x \in DOMAIN buckets \cup {k} |-> IF x = k THEN b ELSE buckets[x]]

\* Mutant: the ticket is not added to the bucket of its project.
record_cost_SkipsProject(st, card_id, project, usage, now, at) ==
    save([global |-> aggregate_into_bucket(st.global, Amounts(usage)),
          by_project |-> Put(st.by_project, project, BucketAt(st.by_project, project)),
          by_date |-> Put(st.by_date, DayKey(now),
                aggregate_into_bucket(BucketAt(st.by_date, DayKey(now)), Amounts(usage))),
          ticket_history |->
                TrimHistory(Append(st.ticket_history,
                                   TicketRecord(card_id, project, usage, at)))],
         now)

\* StateManager.record_cost on the date `now` at the instant `at`, the final
\* _save included.
record_cost(st, card_id, project, usage, now, at) ==
    save([global |-> aggregate_into_bucket(st.global, Amounts(usage)),
          by_project |-> Put(st.by_project, project,
                aggregate_into_bucket(BucketAt(st.by_project, project), Amounts(usage))),
          by_date |-> Put(st.by_date, DayKey(now),
                aggregate_into_bucket(BucketAt(st.by_date, DayKey(now)), Amounts(usage))),
          ticket_history |->
                TrimHistory(Append(st.ticket_history,
                                   TicketRecord(card_id, project, usage, at)))],
         now)

\* The dates a behaviour starts on: Monday 2024-02-26, Monday 2024-12-30 (of
\* ISO week 1 of 2025) and Monday 2025-02-24.
StartDays == {MonthStart(2024, 2) + 25, MonthStart(2024, 12) + 29, MonthStart(2025, 2) + 23}

\* No parsing function is under study.
NoArg == [fn |-> "none"]
NoRet == [kind |-> "none"]
ParseIdle ==
    /\ given = NoArg
    /\ returned = NoRet
    /\ called = FALSE

\* The ledger while nothing is recorded.
LedgerIdle ==
    /\ stats = EmptyStats
    /\ today = MonthStart(2024, 2) + 25
    /\ clock = 0
    /\ passes = 0
    /\ ParseIdle

\* ---------------------------------------------------------------- outcomes
\* What one subprocess call can end in, as far as the code tells them apart.

\* _run_compact: exit code 0 with or without a session_id in the output,
\* a non-zero exit, the 120 s timeout, or any other exception.  H is the set
\* of handles the agent may emit.
CompactOutcomesOver(H) ==
    [kind : {"ok"}, session_id : H \cup {None}]
        \cup [kind : {"nonzero", "timeout", "exception"}, session_id : {None}]
CompactOutcomes == CompactOutcomesOver(Handles)

\* _run_cost: a CostInfo (whatever the exit code), the 30 s timeout, or an exception.
CostOutcomes == {"ok", "timeout", "exception"}

\* _run_once: a parsed result (exit code 0), PromptTooLongError carrying the
\* session_id of the failed output, RateLimitError carrying reset_seconds,
\* the timeout (process killed), or a non-zero exit with no known signature.
RunOnceOutcomesOver(H) ==
    [kind : {"ok"}, session_id : H \cup {None}, reset_seconds : {NoReset}]
        \cup [kind : {"PromptTooLong"}, session_id : H \cup {None},
              reset_seconds : {NoReset}]
        \cup [kind : {"RateLimit"}, session_id : {None}, reset_seconds : ResetValues]
        \cup [kind : {"Timeout", "Generic"}, session_id : {None}, reset_seconds : {NoReset}]
RunOnceOutcomes == RunOnceOutcomesOver(Handles)

NoError == [kind |-> "none", session_id |-> None, reset_seconds |-> NoReset]

\* --------------------------------------------------- ClaudeRunner helpers

\* _run_compact's return value: the new session id, or None.
run_compact(out) ==
    IF out.kind = "ok" /\ out.session_id # None THEN out.session_id ELSE None

\* _run_cost's return value: a CostInfo ("cost") or None.
NoCost == "nocost"
run_cost(out) == IF out = "ok" THEN "cost" ELSE NoCost

\* Mutant: the compaction is skipped when no last card is recorded.
NeedsPreCompact_OnlyKnownLast(session_id, last_card_id, card) ==
    session_id # None /\ last_card_id # NoCard /\ card # last_card_id

\* The condition of the proactive compaction at the top of run().
NeedsPreCompact(session_id, last_card_id, card) ==
    session_id # None /\ (last_card_id = NoCard \/ card # last_card_id)

\* Mutant: the bound is tested one attempt too late.
RetriesExhausted_OffByOne(attempt) == attempt > MAX_RETRIES

\* Whether the retry budget is used up (the `attempt >= self.MAX_RETRIES` tests).
RetriesExhausted(attempt) == attempt >= MAX_RETRIES

\* Mutant: the caller's handle is preferred over the failed output's.
SessionToCompact_PreferCurrent(e_session_id, current_session_id) ==
    IF current_session_id # None THEN current_session_id ELSE e_session_id

\* `session_to_compact = e.session_id or current_session_id`
SessionToCompact(e_session_id, current_session_id) ==
    IF e_session_id # None THEN e_session_id ELSE current_session_id

\* Mutant: with no reset time the retry is immediate.
SleepTime_NoDefault(reset_seconds) ==
    IF reset_seconds # NoReset /\ reset_seconds # 0 THEN reset_seconds ELSE 0

\* The sleep of the RateLimitError branch: `if e.reset_seconds:` is false for
\* None and for 0.
SleepTime(reset_seconds) ==
    IF reset_seconds # NoReset /\ reset_seconds # 0 THEN reset_seconds ELSE DEFAULT_SLEEP

\* ------------------------------------------------ ClaudeRunner.run, by step
\* A run record holds the locals of run(); pc is the await it is suspended at:
\*   "precompact" in the proactive _run_compact   "attempt" in _run_once
\*   "compact"    in the recovery _run_compact    "sleep"   in asyncio.sleep
\*   "cost"       in _run_cost after a success
\*   "returned" / "raised" once run() has ended.

NoRun ==
    [pc |-> "none", card |-> NoCard, session_id |-> None, last_card_id |-> NoCard,
     current_session_id |-> None, attempt |-> 0, last_error |-> NoError,
     session_to_compact |-> None, sleep_time |-> 0,
     result_session_id |-> None, cost_info |-> NoCost, raised |-> ""]

\* Entry of run() up to its first await.
RunEnter(card, session_id, last_card_id) ==
    [NoRun EXCEPT
        !.card = card, !.session_id = session_id, !.last_card_id = last_card_id,
        !.current_session_id = session_id,
        !.pc = IF NeedsPreCompact(session_id, last_card_id, card)
               THEN "precompact" ELSE "attempt"]

\* Mutant: the result of the compaction is taken even when it is None.
AfterPreCompact_DropsOriginal(r, new_session_id) ==
    [r EXCEPT !.current_session_id = new_session_id, !.pc = "attempt"]

\* The proactive _run_compact returned new_session_id.
AfterPreCompact(r, new_session_id) ==
    [r EXCEPT
        !.current_session_id = IF new_session_id # None THEN new_session_id ELSE @,
        !.pc = "attempt"]

\* _run_once ended in `out`: the body of the try and the two except clauses,
\* up to the next await.
AfterRunOnce(r, out) ==
    CASE out.kind = "ok" ->
            [r EXCEPT !.result_session_id = out.session_id,
                      !.pc = IF out.session_id # None THEN "cost" ELSE "returned"]
      [] out.kind = "PromptTooLong" ->
            IF RetriesExhausted(r.attempt)
            THEN [r EXCEPT !.last_error = out, !.pc = "raised",
                           !.raised = "Prompt too long"]
            ELSE IF SessionToCompact(out.session_id, r.current_session_id) = None
            THEN [r EXCEPT !.last_error = out, !.pc = "raised",
                           !.raised = "Prompt too long"]
            ELSE [r EXCEPT !.last_error = out, !.pc = "compact",
                           !.session_to_compact =
                               SessionToCompact(out.session_id, r.current_session_id)]
      [] out.kind = "RateLimit" ->
            IF RetriesExhausted(r.attempt)
            THEN [r EXCEPT !.last_error = out, !.pc = "raised",
                           !.raised = "Rate limit exceeded"]
            ELSE [r EXCEPT !.last_error = out, !.pc = "sleep",
                           !.sleep_time = SleepTime(out.reset_seconds)]
      [] out.kind = "Timeout" ->
            [r EXCEPT !.pc = "raised", !.raised = "Claude Code timed out"]
      [] OTHER ->
            [r EXCEPT !.pc = "raised", !.raised = "Claude Code failed"]

\* Mutant: a failed recovery compaction retries on the stale session.
AfterCompact_RetryStale(r, new_session_id) ==
    [r EXCEPT !.current_session_id = IF new_session_id # None THEN new_session_id ELSE @,
              !.attempt = @ + 1, !.pc = "attempt"]

\* The recovery _run_compact returned new_session_id.
AfterCompact(r, new_session_id) ==
    IF new_session_id # None
    THEN [r EXCEPT !.current_session_id = new_session_id,
                   !.attempt = @ + 1, !.pc = "attempt"]
    ELSE [r EXCEPT !.pc = "raised", !.raised = "Prompt too long and compact failed"]

\* Mutant: a backoff does not use up a retry.
AfterSleep_NoCount(r) == [r EXCEPT !.pc = "attempt"]

\* asyncio.sleep(sleep_time) returned.
AfterSleep(r) == [r EXCEPT !.attempt = @ + 1, !.pc = "attempt"]

\* Mutant: a failed cost query aborts the run.
AfterCost_Raises(r, cost_info) ==
    IF cost_info = NoCost
    THEN [r EXCEPT !.pc = "raised", !.raised = "cost failed"]
    ELSE [r EXCEPT !.cost_info = cost_info, !.pc = "returned"]

\* _run_cost returned cost_info; run() returns the result.
AfterCost(r, cost_info) == [r EXCEPT !.cost_info = cost_info, !.pc = "returned"]

\* A background task: pc is "free" (no task), "created" (spawned, not yet run),
\* "wait_lock", "run" (inside claude.run, see run.pc), "move" (awaiting
\* move_to_ready), "maint" (awaiting run_maintenance) or "done".
\* orphan is the subprocess a cancelled task was waiting for and left running.
NoTask ==
    [pc |-> "free", card |-> NoCard, project |-> "", run |-> NoRun, outcome |-> "",
     orphan |-> "none"]

RunEnded(r) == r.pc \in {"returned", "raised"}
RunInFlight(r) == r.pc \in {"precompact", "attempt", "compact", "sleep", "cost"}

\* ------------------------------------------------------------------ SpecRun
\* One call of run() with any card, any caller-supplied handle and any
\* last-card id.  Each action is the code from one await to the next.

\* One completed call: op is the callee, arg the session handle (or the
\* seconds) it was called with, res the handle it produced, kind how it
\* ended, reset the reset_seconds of a RateLimitError.
Call(op, arg, res, kind, reset) ==
    [op |-> op, arg |-> arg, res |-> res, kind |-> kind, reset |-> reset]

PollInit ==
    /\ todo = Cards
    /\ activity = [c \in Cards |-> 0]
    /\ project_of \in [Cards -> Projects]
    /\ processed = [c \in Cards |-> 0]
    /\ sessions = [p \in Projects |-> [session_id |-> None, last_card_id |-> NoCard]]
    /\ processing_cards = {}
    /\ running_tasks = {}
    /\ tasks = [t \in Cards |-> NoTask]
    /\ lock = [p \in Projects |-> NoCard]
    /\ waiters = [p \in Projects |-> <<>>]
    /\ poll_pc = "idle"
    /\ poll_cards = <<>>
    /\ down = FALSE

InitRun ==
    /\ \E card \in Cards, session_id \in OptHandle, last_card_id \in Cards \cup {NoCard} :
            run = RunEnter(card, session_id, last_card_id)
    /\ calls = <<>>
    /\ PollInit
    /\ LedgerIdle

\* The proactive compaction ends.
PreCompactDone ==
    /\ run.pc = "precompact"
    /\ \E out \in CompactOutcomes :
        /\ run' = AfterPreCompact(run, run_compact(out))
        /\ calls' = Append(calls,
               Call("precompact", run.current_session_id, run_compact(out), out.kind, NoReset))
    /\ UNCHANGED <<pollVars, ledgerVars, parseVars>>

\* Mutant: a timed-out or generically failed attempt is tried again while
\* retries remain.
RunOnceDone_RetriesFatal ==
    /\ run.pc = "attempt"
    /\ \E out \in RunOnceOutcomes :
        /\ run' = IF out.kind \in {"Timeout", "Generic"} /\ ~RetriesExhausted(run.attempt)
                  THEN [run EXCEPT !.attempt = @ + 1]
                  ELSE AfterRunOnce(run, out)
        /\ calls' = Append(calls,
               Call("run_once", run.current_session_id, out.session_id, out.kind,
                    out.reset_seconds))
    /\ UNCHANGED <<pollVars, ledgerVars, parseVars>>

\* One attempt (_run_once) ends.
RunOnceDone ==
    /\ run.pc = "attempt"
    /\ \E out \in RunOnceOutcomes :
        /\ run' = AfterRunOnce(run, out)
        /\ calls' = Append(calls,
               Call("run_once", run.current_session_id, out.session_id, out.kind,
                    out.reset_seconds))
    /\ UNCHANGED <<pollVars, ledgerVars, parseVars>>

\* The recovery compaction ends.
CompactDone ==
    /\ run.pc = "compact"
    /\ \E out \in CompactOutcomes :
        /\ run' = AfterCompact(run, run_compact(out))
        /\ calls' = Append(calls,
               Call("compact", run.session_to_compact, run_compact(out), out.kind, NoReset))
    /\ UNCHANGED <<pollVars, ledgerVars, parseVars>>

\* The backoff sleep ends.
SleepDone ==
    /\ run.pc = "sleep"
    /\ run' = AfterSleep(run)
    /\ calls' = Append(calls, Call("sleep", run.sleep_time, None, "", NoReset))
    /\ UNCHANGED <<pollVars, ledgerVars, parseVars>>

\* The cost query after a successful attempt ends.
CostDone ==
    /\ run.pc = "cost"
    /\ \E out \in CostOutcomes :
        /\ run' = AfterCost(run, run_cost(out))
        /\ calls' = Append(calls, Call("cost", run.result_session_id, None, out, NoReset))
    /\ UNCHANGED <<pollVars, ledgerVars, parseVars>>

NextRun ==
    \/ PreCompactDone
    \/ RunOnceDone
    \/ CompactDone
    \/ SleepDone
    \/ CostDone

SpecRun == InitRun /\ [][NextRun]_vars

\* --------------------------------------------------------------------- Spec
\* The polling loop and its background tasks.  An action is the code one
\* coroutine runs from one await to the next (asyncio runs it without
\* interruption).  Cards are plain task cards of configured projects.  A task
\* is named by its card: tasks[c] is the task spawned for card c.

\* Timestamps (dateLastActivity, processed_at) are only ever compared, and
\* only those of one card with each other, so they are kept as ranks: after
\* each step the timestamps of a card are renumbered 1, 2, ... in their
\* order.  0 is "no processed_at" and the activity before anything happened.
Ranked(act, proc, snap) ==
    LET vals(c) == {0, act[c], proc[c]}
                      \cup (IF c \in DOMAIN snap THEN {snap[c]} ELSE {})
        rk(c, v) == Cardinality({w \in vals(c) : w < v})
    IN [activity |-> [c \in Cards |-> rk(c, act[c])],
        processed |-> [c \in Cards |-> rk(c, proc[c])],
        poll_cards |-> [c \in DOMAIN snap |-> rk(c, snap[c])]]

\* The timestamps after a step that leaves them act, proc and snap.
Stamps(act, proc, snap) ==
    /\ activity' = Ranked(act, proc, snap).activity
    /\ processed' = Ranked(act, proc, snap).processed
    /\ poll_cards' = Ranked(act, proc, snap).poll_cards

\* datetime.now() for card c: later than every timestamp on record.
Now(c) ==
    1 + (CHOOSE m \in {activity[c], processed[c]} :
            m >= activity[c] /\ m >= processed[c])

\* StateManager.is_processed
is_processed(card_id) == processed[card_id] # 0

\* Mutant: a processed card is reprocessed whatever its last activity.
should_reprocess_Always(card_id, last_activity) == processed[card_id] # 0

\* StateManager.should_reprocess: both timestamps are ISO-8601 UTC strings,
\* whose order as strings is their order as instants.
should_reprocess(card_id, last_activity) ==
    processed[card_id] # 0 /\ last_activity > processed[card_id]

\* Mutant: the handle on record is kept, only the last card id is stored.
set_session_KeepsHandle(project, session_id, last_card_id) ==
    [sessions EXCEPT ![project] =
        [session_id |-> @.session_id,
         last_card_id |-> IF last_card_id # NoCard THEN last_card_id
                          ELSE @.last_card_id]]

\* StateManager.set_session: last_card_id is stored only when given.
set_session(project, session_id, last_card_id) ==
    [sessions EXCEPT ![project] =
        [session_id |-> session_id,
         last_card_id |-> IF last_card_id # NoCard THEN last_card_id
                          ELSE @.last_card_id]]

\* Mutant: one lock for all the projects.
LockAvailable_Global(p) == \A q \in Projects : lock[q] = NoCard /\ waiters[q] = <<>>

\* Mutant: the lock is handed out whether or not it is held.
LockAvailable_Always(p) == TRUE

\* asyncio.Lock.acquire's fast path: not locked and nobody queued.
LockAvailable(p) == lock[p] = NoCard /\ waiters[p] = <<>>

\* Mutant: the loop does not look at _processing_cards.
ShouldSpawn_IgnoresInFlight(c) ==
    is_processed(c) => should_reprocess(c, poll_cards[c])

\* The loop body of run_polling_loop for one fetched card: whether a task is
\* spawned for it.
ShouldSpawn(c) ==
    /\ c \notin processing_cards
    /\ is_processed(c) => should_reprocess(c, poll_cards[c])

\* `cards = await trello.get_todo_cards()` returns.
PollFetch ==
    /\ ~down
    /\ poll_pc = "idle"
    /\ poll_pc' = "fetched"
    /\ Stamps(activity, processed, [c \in todo |-> activity[c]])
    /\ UNCHANGED <<todo, project_of, sessions, processing_cards,
                   running_tasks, tasks, lock, waiters, down>>
    /\ UNCHANGED <<runVars, ledgerVars, parseVars>>

\* The `for card in cards` loop, up to `await asyncio.sleep(poll_interval)`:
\* clear_processed for a reopened card, the card id into _processing_cards,
\* the new task into _running_tasks.  (The done-callback of the card's
\* previous task, scheduled when that task ended, has run.)
PollDispatch ==
    /\ ~down
    /\ poll_pc = "fetched"
    /\ LET new == {c \in DOMAIN poll_cards : ShouldSpawn(c)} IN
          /\ \A c \in new : tasks[c].pc = "free"
          /\ Stamps(activity,
                    [c \in Cards |-> IF c \in new THEN 0 ELSE processed[c]],
                    <<>>)
          /\ processing_cards' = processing_cards \cup new
          /\ tasks' = [c \in Cards |->
                IF c \in new
                THEN [NoTask EXCEPT !.pc = "created", !.card = c,
                                    !.project = project_of[c]]
                ELSE tasks[c]]
          /\ running_tasks' = running_tasks \cup new
    /\ poll_pc' = "idle"
    /\ UNCHANGED <<todo, project_of, sessions, lock, waiters, down>>
    /\ UNCHANGED <<runVars, ledgerVars, parseVars>>

\* The locals of run() that are still read after the await it is suspended
\* at; the others are dead (already passed to the call in flight, or
\* overwritten before they are read) and are blanked in a task's record.
Live(r) ==
    [NoRun EXCEPT
        !.pc = r.pc,
        !.current_session_id =
            IF r.pc \in {"cost", "compact"} THEN None ELSE r.current_session_id,
        !.attempt = IF r.pc = "cost" THEN 0 ELSE r.attempt,
        !.result_session_id = r.result_session_id]

\* process_card_for_project after the lock is acquired, up to the first
\* await inside claude.run.
EnterRun(t) ==
    LET p == tasks[t].project
        stored == sessions[p].session_id
        session_id == IF stored # None THEN stored ELSE InitialSession(p)
    IN tasks' = [tasks EXCEPT
            ![t].pc = "run",
            ![t].run = Live(RunEnter(tasks[t].card, session_id,
                                     sessions[p].last_card_id))]

\* A spawned task starts: `async with lock`.
TaskStart(t) ==
    /\ ~down
    /\ tasks[t].pc = "created"
    /\ LET p == tasks[t].project IN
       IF LockAvailable(p)
       THEN /\ lock' = [lock EXCEPT ![p] = t]
            /\ EnterRun(t)
            /\ UNCHANGED waiters
       ELSE /\ waiters' = [waiters EXCEPT ![p] = Append(@, t)]
            /\ tasks' = [tasks EXCEPT ![t].pc = "wait_lock"]
            /\ UNCHANGED lock
    /\ UNCHANGED <<todo, activity, project_of, processed, sessions,
                   processing_cards, running_tasks, poll_pc, poll_cards, down>>
    /\ UNCHANGED <<runVars, ledgerVars, parseVars>>

\* The first waiter of a released lock is woken and takes it.
TaskWake(t) ==
    /\ ~down
    /\ tasks[t].pc = "wait_lock"
    /\ LET p == tasks[t].project IN
        /\ lock[p] = NoCard
        /\ Head(waiters[p]) = t
        /\ lock' = [lock EXCEPT ![p] = t]
        /\ waiters' = [waiters EXCEPT ![p] = Tail(@)]
    /\ EnterRun(t)
    /\ UNCHANGED <<todo, activity, project_of, processed, sessions,
                   processing_cards, running_tasks, poll_pc, poll_cards, down>>
    /\ UNCHANGED <<runVars, ledgerVars, parseVars>>

\* Mutant: the task ends without releasing the lock of its project.
Finish_KeepsLock(t, outcome) ==
    /\ tasks' = [tasks EXCEPT ![t].pc = "done", ![t].outcome = outcome, ![t].run = NoRun]
    /\ processing_cards' = processing_cards \ {tasks[t].card}
    /\ lock' = lock

\* Mutant: the card id stays in _processing_cards when the task ends.
Finish_KeepsInFlight(t, outcome) ==
    /\ tasks' = [tasks EXCEPT ![t].pc = "done", ![t].outcome = outcome, ![t].run = NoRun]
    /\ processing_cards' = processing_cards
    /\ lock' = [lock EXCEPT ![tasks[t].project] = NoCard]

\* The end of process_card_for_project: the finally block discards the card
\* id, the lock is released, the task is done.
Finish(t, outcome) ==
    /\ tasks' = [tasks EXCEPT ![t].pc = "done", ![t].outcome = outcome, ![t].run = NoRun]
    /\ processing_cards' = processing_cards \ {tasks[t].card}
    /\ lock' = [lock EXCEPT ![tasks[t].project] = NoCard]

\* Mutant: the working handle of run() is persisted while run() is under way.
Continue_PersistsEarly(t, r2) ==
    LET c == tasks[t].card
        p == tasks[t].project
    IN IF r2.pc = "returned"
       THEN /\ sessions' = IF r2.result_session_id # None
                           THEN set_session(p, r2.result_session_id, c)
                           ELSE sessions
            /\ Stamps(activity, [processed EXCEPT ![c] = Now(c)], poll_cards)
            /\ tasks' = [tasks EXCEPT
                    ![t].pc = "move",
                    ![t].run = [NoRun EXCEPT !.pc = "returned",
                                   !.result_session_id = r2.result_session_id,
                                   !.cost_info = r2.cost_info]]
            /\ UNCHANGED <<processing_cards, lock>>
       ELSE IF r2.pc = "raised"
       THEN /\ Finish(t, "failed")
            /\ UNCHANGED <<sessions, activity, processed, poll_cards>>
       ELSE /\ tasks' = [tasks EXCEPT ![t].run = Live(r2)]
            /\ sessions' = IF r2.current_session_id # None
                           THEN set_session(p, r2.current_session_id, NoCard)
                           ELSE sessions
            /\ UNCHANGED <<activity, processed, poll_cards, processing_cards, lock>>

\* claude.run moved to r2.  If it returned: set_session, mark_processed, and
\* the task awaits move_to_ready.  If it raised: except, finally, done.
Continue(t, r2) ==
    LET c == tasks[t].card
        p == tasks[t].project
    IN IF r2.pc = "returned"
       THEN /\ sessions' = IF r2.result_session_id # None
                           THEN set_session(p, r2.result_session_id, c)
                           ELSE sessions
            /\ Stamps(activity, [processed EXCEPT ![c] = Now(c)], poll_cards)
            /\ tasks' = [tasks EXCEPT
                    ![t].pc = "move",
                    ![t].run = [NoRun EXCEPT !.pc = "returned",
                                   !.result_session_id = r2.result_session_id,
                                   !.cost_info = r2.cost_info]]
            /\ UNCHANGED <<processing_cards, lock>>
       ELSE IF r2.pc = "raised"
       THEN /\ Finish(t, "failed")
            /\ UNCHANGED <<sessions, activity, processed, poll_cards>>
       ELSE /\ tasks' = [tasks EXCEPT ![t].run = Live(r2)]
            /\ UNCHANGED <<sessions, activity, processed, poll_cards,
                           processing_cards, lock>>

InRun(t, pc) == ~down /\ tasks[t].pc = "run" /\ tasks[t].run.pc = pc
RunFrame == <<todo, project_of, running_tasks, waiters, poll_pc, down>>

TaskPreCompactDone(t) ==
    /\ InRun(t, "precompact")
    /\ \E out \in CompactOutcomesOver(PollHandles) :
          Continue(t, AfterPreCompact(tasks[t].run, run_compact(out)))
    /\ UNCHANGED RunFrame
    /\ UNCHANGED <<runVars, ledgerVars, parseVars>>

TaskRunOnceDone(t) ==
    /\ InRun(t, "attempt")
    /\ \E out \in RunOnceOutcomesOver(PollHandles) :
          Continue(t, AfterRunOnce(tasks[t].run, out))
    /\ UNCHANGED RunFrame
    /\ UNCHANGED <<runVars, ledgerVars, parseVars>>

TaskCompactDone(t) ==
    /\ InRun(t, "compact")
    /\ \E out \in CompactOutcomesOver(PollHandles) :
          Continue(t, AfterCompact(tasks[t].run, run_compact(out)))
    /\ UNCHANGED RunFrame
    /\ UNCHANGED <<runVars, ledgerVars, parseVars>>

TaskSleepDone(t) ==
    /\ InRun(t, "sleep")
    /\ Continue(t, AfterSleep(tasks[t].run))
    /\ UNCHANGED RunFrame
    /\ UNCHANGED <<runVars, ledgerVars, parseVars>>

TaskCostDone(t) ==
    /\ InRun(t, "cost")
    /\ \E out \in CostOutcomes : Continue(t, AfterCost(tasks[t].run, run_cost(out)))
    /\ UNCHANGED RunFrame
    /\ UNCHANGED <<runVars, ledgerVars, parseVars>>

\* `await trello.move_to_ready(card.id)` ends: the card was moved, no ready
\* list was found (a warning, the card stays), or the request raised.  Then
\* the ticket count, and maintenance when it is due.
TaskMoveDone(t) ==
    /\ ~down
    /\ tasks[t].pc = "move"
    /\ \/ /\ \E moved \in BOOLEAN :
                /\ todo' = (IF moved THEN todo \ {t} ELSE todo)
                /\ Stamps(IF moved THEN [activity EXCEPT ![t] = Now(t)] ELSE activity,
                          processed, poll_cards)
          /\ \/ /\ tasks' = [tasks EXCEPT ![t].pc = "maint"]
                /\ UNCHANGED <<processing_cards, lock>>
             \/ Finish(t, "ok")
       \/ /\ Finish(t, "failed")
          /\ UNCHANGED <<todo, activity, processed, poll_cards>>
    /\ UNCHANGED <<project_of, sessions, running_tasks, waiters, poll_pc, down>>
    /\ UNCHANGED <<runVars, ledgerVars, parseVars>>

\* run_maintenance returns; a successful one may name a new session.
TaskMaintDone(t) ==
    /\ ~down
    /\ tasks[t].pc = "maint"
    /\ \E success \in BOOLEAN, session_id \in PollHandles \cup {None} :
          sessions' = IF success /\ session_id # None
                      THEN set_session(tasks[t].project, session_id, tasks[t].card)
                      ELSE sessions
    /\ Finish(t, "ok")
    /\ UNCHANGED <<todo, activity, project_of, processed, running_tasks, waiters,
                   poll_pc, poll_cards, down>>
    /\ UNCHANGED <<runVars, ledgerVars, parseVars>>

\* _task_done_callback: the finished task leaves _running_tasks.
TaskDoneCallback(t) ==
    /\ tasks[t].pc = "done"
    /\ t \in running_tasks
    /\ running_tasks' = running_tasks \ {t}
    /\ tasks' = [tasks EXCEPT ![t] = NoTask]
    /\ UNCHANGED <<todo, activity, project_of, processed, sessions,
                   processing_cards, lock, waiters, poll_pc, poll_cards, down>>
    /\ UNCHANGED <<runVars, ledgerVars, parseVars>>

\* The subprocess a task is waiting for: claude (the attempt), the /compact
\* or the /cost call of run(), or the claude call of run_maintenance.
Awaited(task) ==
    IF task.pc = "maint" THEN "maintenance"
    ELSE IF task.pc # "run" THEN "none"
    ELSE CASE task.run.pc \in {"precompact", "compact"} -> "compact"
           [] task.run.pc = "attempt" -> "main"
           [] task.run.pc = "cost" -> "cost"
           [] OTHER -> "none"

\* CancelledError raised at the await the task is suspended at.  It is not an
\* Exception and not asyncio.TimeoutError: no except clause of _run_once,
\* _run_compact, _run_cost or run_maintenance catches it, so nothing kills
\* the subprocess the task was waiting for.
Cancelled(task) ==
    [task EXCEPT !.pc = "done", !.outcome = "cancelled", !.run = NoRun,
                 !.orphan = Awaited(task)]

\* The finally block of run_polling_loop: every task of _running_tasks is
\* cancelled.  A task inside the try block runs its finally; one that has not
\* started, or still waits for the lock, never entered it.
Shutdown ==
    /\ ~down
    /\ down' = TRUE
    /\ LET hit == {t \in running_tasks : tasks[t].pc \notin {"free", "done"}} IN
        /\ tasks' = [t \in Cards |->
              IF t \in hit
              THEN Cancelled(tasks[t])
              ELSE tasks[t]]
        /\ processing_cards' = processing_cards \
              {t \in hit : tasks[t].pc \in {"run", "move", "maint"}}
    /\ lock' = [p \in Projects |-> NoCard]
    /\ waiters' = [p \in Projects |-> <<>>]
    /\ poll_pc' = "stopped"
    /\ Stamps(activity, processed, <<>>)
    /\ UNCHANGED <<todo, project_of, sessions, running_tasks>>
    /\ UNCHANGED <<runVars, ledgerVars, parseVars>>

\* The user comments on a card or moves it back to TODO.
UserActivity(c) ==
    /\ ~down
    /\ todo' = todo \cup {c}
    /\ Stamps([activity EXCEPT ![c] = Now(c)], processed, poll_cards)
    /\ UNCHANGED <<project_of, sessions, processing_cards, running_tasks, tasks,
                   lock, waiters, poll_pc, down>>
    /\ UNCHANGED <<runVars, ledgerVars, parseVars>>

Init ==
    /\ run = NoRun
    /\ calls = <<>>
    /\ PollInit
    /\ LedgerIdle

Next ==
    \/ PollFetch
    \/ PollDispatch
    \/ Shutdown
    \/ \E c \in Cards : UserActivity(c)
    \/ \E t \in Cards :
        \/ TaskStart(t)
        \/ TaskWake(t)
        \/ TaskPreCompactDone(t)
        \/ TaskRunOnceDone(t)
        \/ TaskCompactDone(t)
        \/ TaskSleepDone(t)
        \/ TaskCostDone(t)
        \/ TaskMoveDone(t)
        \/ TaskMaintDone(t)
        \/ TaskDoneCallback(t)

Spec == Init /\ [][Next]_vars

\* C1: at any moment at most one task per project is inside claude.run (in
\* a compaction, an attempt, a backoff sleep or the cost query).
C1_OneRunPerProject ==
    \A p \in Projects :
        Cardinality({t \in Cards :
            tasks[t].project = p /\ tasks[t].pc = "run"
                /\ RunInFlight(tasks[t].run)}) <= 1

\* One task of a project is inside run() while another task of the same
\* project waits for the lock.
C1_Witness ==
    \E t, u \in Cards :
        /\ t # u
        /\ tasks[t].project = tasks[u].project
        /\ tasks[t].pc = "run" /\ RunInFlight(tasks[t].run)
        /\ tasks[u].pc = "wait_lock"

\* ------------------------------------------------- claims about one run()

\* The positions in `calls` of the calls of `op`.
CallsOf(op) == {i \in 1..Len(calls) : calls[i].op = op}
NumCalls(op) == Cardinality(CallsOf(op))
\* The attempt index (0-based) of the _run_once call at position i.
AttemptIndex(i) == Cardinality({j \in 1..(i - 1) : calls[j].op = "run_once"})
\* Three attempts were made and each ended in PromptTooLongError.
ThreeOverflows ==
    /\ NumCalls("run_once") = 3
    /\ \A i \in CallsOf("run_once") : calls[i].kind = "PromptTooLong"
AllCompactionsSucceeded ==
    \A i \in CallsOf("precompact") \cup CallsOf("compact") : calls[i].res # None

\* C2 as stated: with a session handle supplied, three consecutive
\* ContextOverflow failures (every compaction succeeding) end run() in a
\* terminal error with compaction invoked exactly twice in that call.
C2_Original ==
    (run.session_id # None /\ ThreeOverflows /\ AllCompactionsSucceeded)
        => /\ run.pc = "raised"
           /\ NumCalls("precompact") + NumCalls("compact") = 2

\* C2 amended: with a session handle supplied, three consecutive
\* ContextOverflow failures (every compaction succeeding) end run() in a
\* terminal error right after the third attempt; the recovery compaction has
\* run exactly twice, and the proactive compaction once more before the first
\* attempt unless the task continues the last card.
C2_ThreeOverflowsTwoRecoveries ==
    (run.session_id # None /\ ThreeOverflows /\ AllCompactionsSucceeded)
        => /\ run.pc = "raised"
           /\ run.raised = "Prompt too long"
           /\ calls[Len(calls)].op = "run_once"
           /\ NumCalls("compact") = 2
           /\ NumCalls("precompact") = (IF run.last_card_id = run.card THEN 0 ELSE 1)

C2_Witness ==
    /\ run.session_id # None /\ ThreeOverflows /\ AllCompactionsSucceeded
    /\ run.pc = "raised"
    /\ NumCalls("precompact") = 1
    /\ NumCalls("compact") = 2

\* C3: run() makes at most MAX_RETRIES+1 attempts whatever their outcomes,
\* compactions and sleeps together use the one retry budget, and a third
\* attempt that fails recoverably ends run() in a terminal error carrying
\* that error, with no compaction or sleep after it.
C3_BoundedAttempts ==
    /\ NumCalls("run_once") <= MAX_RETRIES + 1
    /\ NumCalls("compact") + NumCalls("sleep") <= MAX_RETRIES
    /\ NumCalls("run_once") + (IF run.pc = "attempt" THEN 1 ELSE 0) <= MAX_RETRIES + 1
    /\ \A i \in CallsOf("run_once") :
          (AttemptIndex(i) = MAX_RETRIES) =>
              /\ i = Len(calls) \/ (i + 1 = Len(calls) /\ calls[i + 1].op = "cost")
              /\ run.pc \in {"cost", "returned", "raised"}
              /\ calls[i].kind \in {"PromptTooLong", "RateLimit"} =>
                    /\ i = Len(calls)
                    /\ run.pc = "raised"
                    /\ run.last_error.kind = calls[i].kind
                    /\ run.last_error.session_id = calls[i].res
                    /\ run.last_error.reset_seconds = calls[i].reset
                    /\ run.raised = (IF calls[i].kind = "RateLimit"
                                     THEN "Rate limit exceeded" ELSE "Prompt too long")

\* A third attempt failed as Throttled after one overflow and one throttle.
C3_Witness ==
    /\ NumCalls("run_once") = 3
    /\ NumCalls("compact") = 1
    /\ NumCalls("sleep") = 1
    /\ calls[Len(calls)].kind = "RateLimit"
    /\ run.pc = "raised"

\* C4 as stated: every successful compaction yields a handle different from
\* its input, and the attempt that follows a ContextOverflow on handle h is
\* never made with h.
C4_NeverRetriesOverflowedHandle ==
    /\ \A i \in CallsOf("compact") \cup CallsOf("precompact") :
          calls[i].res # None => calls[i].res # calls[i].arg
    /\ \A i \in CallsOf("run_once") :
          (calls[i].kind = "PromptTooLong" /\ i + 2 <= Len(calls))
              => calls[i + 2].arg # calls[i].arg

\* C5 as stated: no failed compaction (proactive or recovery) and no failed
\* cost query ends run() in an error.
C5_Original ==
    \A i \in CallsOf("precompact") \cup CallsOf("compact") \cup CallsOf("cost") :
        (i = Len(calls) /\ calls[i].kind # "ok") => run.pc # "raised"

\* C5 amended: a failed or timed-out proactive compaction and a failed or
\* timed-out cost query are non-fatal (run() goes on with the caller's handle,
\* or returns the result without usage data); a failed recovery compaction is
\* fatal.
C5_NonFatalExceptRecovery ==
    /\ \A i \in CallsOf("precompact") :
          (i = Len(calls) /\ calls[i].res = None)
              => run.pc = "attempt" /\ run.current_session_id = run.session_id
    /\ \A i \in CallsOf("cost") :
          (i = Len(calls) /\ calls[i].kind # "ok")
              => /\ run.pc = "returned"
                 /\ run.cost_info = NoCost
                 /\ run.result_session_id = calls[i].arg
    /\ \A i \in CallsOf("compact") :
          (i = Len(calls) /\ calls[i].res = None) => run.pc = "raised"

\* A run whose proactive compaction timed out and whose cost query failed
\* has returned.
C5_Witness ==
    /\ Len(calls) = 3
    /\ calls[1].op = "precompact" /\ calls[1].kind = "timeout"
    /\ calls[3].op = "cost" /\ calls[3].kind = "exception"
    /\ run.pc = "returned"

\* C6: the recovery compaction targets the handle of the failed output when
\* there is one, else the handle the attempt was started with; with neither,
\* run() fails at once: no compaction, no further attempt.
C6_CompactionTarget ==
    /\ \A i \in CallsOf("compact") :
          /\ i > 1
          /\ calls[i - 1].op = "run_once" /\ calls[i - 1].kind = "PromptTooLong"
          /\ calls[i].arg = (IF calls[i - 1].res # None THEN calls[i - 1].res
                             ELSE calls[i - 1].arg)
          /\ calls[i].arg # None
    /\ run.pc = "compact" =>
          LET e == calls[Len(calls)] IN
          /\ e.op = "run_once" /\ e.kind = "PromptTooLong"
          /\ run.session_to_compact = (IF e.res # None THEN e.res ELSE e.arg)
          /\ run.session_to_compact # None
    /\ \A i \in CallsOf("run_once") :
          (calls[i].kind = "PromptTooLong" /\ calls[i].res = None /\ calls[i].arg = None)
              => i = Len(calls) /\ run.pc = "raised" /\ run.raised = "Prompt too long"

\* An attempt started on one handle failed under another, and that other
\* handle was compacted.
C6_Witness ==
    \E i \in CallsOf("compact") :
        /\ calls[i - 1].res # None
        /\ calls[i - 1].arg # None
        /\ calls[i - 1].res # calls[i - 1].arg
        /\ calls[i].arg = calls[i - 1].res

\* C7: after a successful recovery compaction the next attempt runs with the
\* new handle; after a failed one run() has failed and nothing follows, even
\* with retries left.
C7_CompactionOutcome ==
    \A i \in CallsOf("compact") :
        IF calls[i].res # None
        THEN IF i = Len(calls)
             THEN run.pc = "attempt" /\ run.current_session_id = calls[i].res
             ELSE calls[i + 1].op = "run_once" /\ calls[i + 1].arg = calls[i].res
        ELSE /\ i = Len(calls)
             /\ run.pc = "raised"
             /\ run.raised = "Prompt too long and compact failed"

\* The recovery compaction after the first attempt failed, and run() raised.
C7_Witness ==
    /\ NumCalls("run_once") = 1
    /\ calls[Len(calls)].op = "compact"
    /\ calls[Len(calls)].res = None
    /\ run.pc = "raised"

\* The number of proactive compactions started so far.
PreCompactions ==
    NumCalls("precompact") + (IF run.pc = "precompact" THEN 1 ELSE 0)

\* C8: the proactive compaction runs, before the first attempt and once, if
\* and only if a handle was supplied and the last card id is absent or
\* differs from the card; never without a handle.
C8_ProactiveIff ==
    /\ PreCompactions =
          (IF run.session_id # None
                /\ (run.last_card_id = NoCard \/ run.last_card_id # run.card)
           THEN 1 ELSE 0)
    /\ \A i \in CallsOf("precompact") : i = 1 /\ calls[i].arg = run.session_id
    /\ run.pc = "precompact" => calls = <<>>

\* A run with a handle and no recorded last card has compacted proactively.
C8_Witness ==
    /\ run.session_id # None
    /\ run.last_card_id = NoCard
    /\ NumCalls("precompact") = 1
    /\ NumCalls("run_once") >= 1

\* C9: after the proactive compaction the first attempt is made, with the
\* caller's handle when the compaction failed or timed out and with the
\* compacted handle when it succeeded.
C9_FirstAttemptHandle ==
    (Len(calls) >= 1 /\ calls[1].op = "precompact") =>
        LET expected == IF calls[1].res # None THEN calls[1].res ELSE run.session_id IN
        IF Len(calls) = 1
        THEN run.pc = "attempt" /\ run.current_session_id = expected /\ expected # None
        ELSE calls[2].op = "run_once" /\ calls[2].arg = expected /\ expected # None

\* The proactive compaction timed out and the attempt ran on the caller's handle.
C9_Witness ==
    /\ Len(calls) >= 2
    /\ calls[1].op = "precompact" /\ calls[1].kind = "timeout"
    /\ calls[2].op = "run_once" /\ calls[2].arg = run.session_id

\* C10: a Throttled failure with no reset time and retries left is followed
\* by one sleep of the default 300 seconds and then by the next attempt on
\* the same handle.
C10_DefaultSleep ==
    \A i \in CallsOf("run_once") :
        (calls[i].kind = "RateLimit" /\ calls[i].reset = NoReset
            /\ AttemptIndex(i) < MAX_RETRIES) =>
            /\ i = Len(calls) => run.pc = "sleep" /\ run.sleep_time = 300
            /\ i + 1 <= Len(calls) =>
                  calls[i + 1].op = "sleep" /\ calls[i + 1].arg = 300
            /\ i + 1 = Len(calls) =>
                  run.pc = "attempt" /\ run.current_session_id = calls[i].arg
            /\ i + 2 <= Len(calls) =>
                  calls[i + 2].op = "run_once" /\ calls[i + 2].arg = calls[i].arg

\* A throttle with no reset time, the sleep of 300 s, and the retry.
C10_Witness ==
    \E i \in CallsOf("run_once") :
        /\ calls[i].kind = "RateLimit" /\ calls[i].reset = NoReset
        /\ i + 2 <= Len(calls)
        /\ calls[i + 1].op = "sleep" /\ calls[i + 1].arg = 300
        /\ calls[i + 2].op = "run_once" /\ calls[i + 2].arg = calls[i].arg

\* C11 as stated: a Throttled failure whose reset duration r >= 0 was
\* recovered, with retries left, is followed by a sleep of exactly r seconds;
\* the default backoff is slept only when no reset time was recovered.
C11_SleepsRecoveredDuration ==
    \A i \in CallsOf("run_once") :
        (calls[i].kind = "RateLimit" /\ AttemptIndex(i) < MAX_RETRIES) =>
            /\ (calls[i].reset # NoReset /\ i = Len(calls)) =>
                    run.pc = "sleep" /\ run.sleep_time = calls[i].reset
            /\ (calls[i].reset # NoReset /\ i + 1 <= Len(calls)) =>
                    calls[i + 1].op = "sleep" /\ calls[i + 1].arg = calls[i].reset
            /\ (i + 1 <= Len(calls) /\ calls[i + 1].arg = DEFAULT_SLEEP) =>
                    calls[i].reset = NoReset

\* C12: an attempt that ends in the timeout or in a non-zero exit with no
\* known signature is the last call of run(): no attempt, compaction or sleep
\* follows, and run() has raised the corresponding error.
C12_FatalFailures ==
    \A i \in CallsOf("run_once") :
        calls[i].kind \in {"Timeout", "Generic"} =>
            /\ i = Len(calls)
            /\ run.pc = "raised"
            /\ run.raised = (IF calls[i].kind = "Timeout"
                             THEN "Claude Code timed out" ELSE "Claude Code failed")

\* The second attempt, made after a backoff, timed out with a retry left.
C12_Witness ==
    /\ Len(calls) = 3
    /\ calls[1].op = "run_once" /\ calls[1].kind = "RateLimit"
    /\ calls[2].op = "sleep"
    /\ calls[3].op = "run_once" /\ calls[3].kind = "Timeout"
    /\ run.pc = "raised"

\* -------------------------------------------------- claims about the loop

\* C13: a card that carries a processed mark is dispatched again only when
\* its last activity is later than its processed_at, and the mark
\* is removed by nothing but such a dispatch: between two successful runs of
\* a card the card was reopened.
C13_NoRedispatchWithoutReopen ==
    [][\A c \in Cards :
        /\ (processed[c] # 0 /\ tasks[c].pc = "free" /\ tasks'[c].pc = "created")
              => activity[c] > processed[c]
        /\ (processed[c] # 0 /\ processed'[c] = 0)
              => (tasks'[c].pc = "created" /\ activity[c] > processed[c])
        /\ (tasks[c].pc = "run" /\ tasks'[c].pc = "move") => processed'[c] # 0]_vars

\* A card whose run succeeded before (it is the last card of its project's
\* session) was reopened and has been dispatched again.
C13_Witness ==
    \E c \in Cards :
        /\ tasks[c].pc = "created"
        /\ sessions[project_of[c]].last_card_id = c
        /\ activity[c] > 0

\* C14: when run() raises, the task ends with the card unmarked and out of
\* _processing_cards, and the next dispatch whose fetch holds an unmarked card
\* that is not in flight spawns a task for it.
C14_FailedRunStaysUnresolved ==
    [][\A c \in Cards :
        /\ (tasks[c].pc = "run" /\ tasks'[c].pc = "done" /\ ~down')
              => /\ tasks'[c].outcome = "failed"
                 /\ processed'[c] = 0
                 /\ c \notin processing_cards'
        /\ (poll_pc = "fetched" /\ poll_pc' = "idle" /\ c \in DOMAIN poll_cards
                /\ processed[c] = 0 /\ c \notin processing_cards)
              => /\ tasks'[c].pc = "created"
                 /\ c \in processing_cards'
                 /\ c \in running_tasks']_vars

\* The run of a card raised, the card is still in TODO and has been fetched
\* by the next poll.
C14_Witness ==
    \E c \in Cards :
        /\ tasks[c].pc = "done" /\ tasks[c].outcome = "failed"
        /\ processed[c] = 0
        /\ c \notin processing_cards
        /\ c \in todo
        /\ poll_pc = "fetched" /\ c \in DOMAIN poll_cards

\* C15 as stated: once the polling loop has shut down, every background task
\* has ended and no agent subprocess (main run, compaction, cost query) that
\* was alive at that moment is left running.
C15_NoSubprocessOutlivesShutdown ==
    down =>
        /\ \A t \in running_tasks : tasks[t].pc = "done"
        /\ \A t \in Cards : tasks[t].orphan = "none"

\* C16: the persisted session record of a project does not change while a
\* task of the project is inside run(), nor in the step in which that run()
\* raises or is cancelled; it is replaced only when a run() of the project
\* returns a result with a session id, or when its maintenance run ends.
C16_SessionReplacedOnlyOnSuccess ==
    [][\A t \in Cards :
        LET p == tasks[t].project IN
        /\ (tasks[t].pc = "run" /\ tasks'[t].pc \in {"run", "done"})
              => sessions'[p] = sessions[p]
        /\ (tasks[t].pc = "run" /\ tasks'[t].pc = "move")
              => sessions'[p] =
                    (IF tasks'[t].run.result_session_id # None
                     THEN [session_id |-> tasks'[t].run.result_session_id,
                           last_card_id |-> t]
                     ELSE sessions[p])
        /\ \A q \in Projects :
              sessions'[q] # sessions[q] =>
                  \E u \in Cards :
                      /\ tasks[u].project = q
                      /\ \/ tasks[u].pc = "run" /\ tasks'[u].pc = "move"
                         \/ tasks[u].pc = "maint" /\ tasks'[u].pc = "done" /\ ~down']_vars

\* A run() that was entered without a persisted handle holds a handle that a
\* recovery compaction returned, and the persisted record is still empty.
C16_Witness ==
    \E t \in Cards :
        /\ tasks[t].pc = "run" /\ tasks[t].run.pc = "attempt"
        /\ tasks[t].run.attempt >= 1
        /\ tasks[t].run.current_session_id # None
        /\ tasks[t].project = "pA"
        /\ sessions["pA"].session_id = None

\* `if result.cost_info: state.record_cost(...)`: the number of record_cost
\* calls process_card_for_project makes for the result run() returned.
RecordCostCalls(result) == IF result.cost_info # NoCost THEN 1 ELSE 0

\* C17 as stated: for every ticket whose run() returned and whose card is
\* marked processed, record_cost has been called exactly once.
C17_EveryCompletedTicketRecorded ==
    \A t \in Cards :
        (tasks[t].pc = "move" /\ processed[t] # 0) => RecordCostCalls(tasks[t].run) = 1

\* ------------------------------------------------ the ticket history alone
\* SpecHistory: record_cost is called MaxHistoryCalls times on one date, the
\* ticket of each call determined by its number.
MaxHistoryCalls == 103

\* The ticket of the n-th record_cost call.
NthCard(n) == IF n % 2 = 0 THEN "c1" ELSE "c2"
NthUsage(n) ==
    [f \in UsageFields |-> IF f = "total_cost_cents" THEN 1 + (n % 5) ELSE n % 2]

InitHistory ==
    /\ run = NoRun
    /\ calls = <<>>
    /\ PollInit
    /\ stats = EmptyStats
    /\ today \in StartDays
    /\ clock = 0
    /\ passes = 0
    /\ ParseIdle

\* One more ticket completes and is recorded.
RecordNext ==
    /\ clock < MaxHistoryCalls
    /\ clock' = clock + 1
    /\ stats' = record_cost(stats, NthCard(clock'), project_of[NthCard(clock')],
                            NthUsage(clock'), today, clock')
    /\ UNCHANGED <<today, passes, runVars, pollVars, parseVars>>

NextHistory == RecordNext
SpecHistory == InitHistory /\ [][NextHistory]_vars

\* C18: the ticket history holds at most 100 records, and they are the most
\* recently recorded tickets in the order they were recorded: after n calls
\* the history is the calls n-k+1 .. n, k being the smaller of n and 100.
C18_HistoryKeepsLast100 ==
    LET h == stats.ticket_history
    IN /\ Len(h) <= HISTORY_LIMIT
       /\ Len(h) = (IF clock < HISTORY_LIMIT THEN clock ELSE HISTORY_LIMIT)
       /\ \A i \in 1..Len(h) :
            LET n == clock - Len(h) + i
            IN h[i] = TicketRecord(NthCard(n), project_of[NthCard(n)], NthUsage(n), n)

\* More than 100 tickets were recorded, so the oldest ones were dropped.
C18_Witness ==
    /\ clock > HISTORY_LIMIT + 1
    /\ Len(stats.ticket_history) = HISTORY_LIMIT
    /\ stats.ticket_history[1].processed_at = clock - HISTORY_LIMIT + 1

\* --------------------------------------------------- the ledger over time
\* SpecLedger: tickets are recorded, the state file is persisted for other
\* reasons, and days go by.
MaxRecords == 2
MaxDayPasses == 3
\* The numbers of days that go by at once.
DaySteps == {1, 30, 60}

InitLedger ==
    /\ run = NoRun
    /\ calls = <<>>
    /\ PollInit
    /\ stats = EmptyStats
    /\ today \in StartDays
    /\ clock = 0
    /\ passes = 0
    /\ ParseIdle

\* process_card_for_project records the cost of a completed ticket.
RecordCost(usage) ==
    /\ clock < MaxRecords
    /\ clock' = clock + 1
    /\ stats' = record_cost(stats, NthCard(clock'), project_of[NthCard(clock')],
                            usage, today, clock')
    /\ UNCHANGED <<today, passes, runVars, pollVars, parseVars>>

\* set_session, mark_processed or clear_processed persists the state file.
Persist ==
    /\ stats' = save(stats, today)
    /\ UNCHANGED <<today, clock, passes, runVars, pollVars, parseVars>>

\* k days go by.
DayPasses(k) ==
    /\ passes < MaxDayPasses
    /\ passes' = passes + 1
    /\ today' = today + k
    /\ UNCHANGED <<stats, clock, runVars, pollVars, parseVars>>

NextLedger ==
    \/ \E usage \in Usages : RecordCost(usage)
    \/ Persist
    \/ \E k \in DaySteps : DayPasses(k)

SpecLedger == InitLedger /\ [][NextLedger]_vars

\* The age in days of the daily bucket, or of the parsed start of the weekly
\* bucket, under key k.
DaysOld(k) == today - (IF k[1] = "day" THEN k[2] ELSE WeekStart(k))

\* C19 as stated: on every ledger and date, a second rollup changes nothing.
C19_RollupIdempotent ==
    rollup_old_dates(rollup_old_dates(stats.by_date, today), today)
        = rollup_old_dates(stats.by_date, today)

\* C20: a rollup keeps, for every counter, the sum over all the buckets of
\* by_date: nothing is lost and nothing is counted twice.
C20_RollupKeepsSums ==
    LET after == rollup_old_dates(stats.by_date, today)
    IN SumBuckets(after, DOMAIN after) = SumBuckets(stats.by_date, DOMAIN stats.by_date)

\* A weekly bucket is old enough to go into its month while a daily bucket of
\* the same week goes into that week: the rollup removes the weekly key and
\* creates it again.
C20_Witness ==
    \E w \in DOMAIN stats.by_date, d \in DOMAIN stats.by_date :
        /\ w[1] = "week" /\ DaysOld(w) > WEEKLY_DAYS
        /\ d[1] = "day" /\ DaysOld(d) > DAILY_DAYS /\ DaysOld(d) <= WEEKLY_DAYS
        /\ WeekKey(d[2]) = w
        /\ stats.by_date[d].total_cost_cents > 0
        /\ w \in DOMAIN rollup_old_dates(stats.by_date, today)

\* The daily keys of the ledger, and the weekly and monthly buckets that stay
\* where they are in a rollup (an empty bucket where there is none).
DailyKeys == {k \in DOMAIN stats.by_date : k[1] = "day"}
StayingBucket(k) ==
    IF k \in DOMAIN stats.by_date /\ ~(k[1] = "week" /\ DaysOld(k) > WEEKLY_DAYS)
    THEN stats.by_date[k] ELSE EmptyBucket

\* C21: a rollup keeps every daily bucket of age <= 30 as it is, removes the
\* daily buckets of age 31..90 and adds them to the weekly bucket of their ISO
\* year and week, and removes the daily buckets of age > 90 and adds them to
\* the monthly bucket of their year and month.
C21_DailyBucketsByAge ==
    LET after == rollup_old_dates(stats.by_date, today)
        isoWeek(d) == <<"week", IsoYear(d[2]), IsoWeek(d[2])>>
        month(d) == <<"month", YearOf(d[2]), MonthOf(d[2])>>
        weekly == {d \in DailyKeys : DaysOld(d) > DAILY_DAYS /\ DaysOld(d) <= WEEKLY_DAYS}
        monthly == {d \in DailyKeys : DaysOld(d) > WEEKLY_DAYS}
        oldWeeks == {w \in DOMAIN stats.by_date : w[1] = "week" /\ DaysOld(w) > WEEKLY_DAYS}
    IN /\ \A d \in DailyKeys : DaysOld(d) <= DAILY_DAYS =>
            d \in DOMAIN after /\ after[d] = stats.by_date[d]
       /\ \A d \in weekly :
            /\ d \notin DOMAIN after
            /\ isoWeek(d) \in DOMAIN after
            /\ after[isoWeek(d)] =
                 aggregate_into_bucket(StayingBucket(isoWeek(d)),
                     SumBuckets(stats.by_date, {e \in weekly : isoWeek(e) = isoWeek(d)}))
       /\ \A d \in monthly :
            /\ d \notin DOMAIN after
            /\ month(d) \in DOMAIN after
            /\ after[month(d)] =
                 aggregate_into_bucket(StayingBucket(month(d)),
                     aggregate_into_bucket(
                         SumBuckets(stats.by_date, {e \in monthly : month(e) = month(d)}),
                         SumBuckets(stats.by_date,
                                    {w \in oldWeeks : MonthKey(WeekStart(w)) = month(d)})))

\* A daily bucket is 30 days old and the one of the day before, in ISO week 1
\* of the following year, is 31 days old.
C21_Witness ==
    \E d \in DailyKeys, e \in DailyKeys :
        /\ DaysOld(d) = DAILY_DAYS /\ DaysOld(e) = DAILY_DAYS + 1
        /\ IsoYear(e[2]) # YearOf(e[2])
        /\ stats.by_date[e].total_tickets > 0

\* The Monday of the ISO week a weekly key names: ISO week 1 is the week of
\* January 4th.
IsoWeekStart(key) ==
    (YearStart(key[2]) + 3) - Weekday(YearStart(key[2]) + 3) + 7 * (key[3] - 1)
WeeklyKeys == {k \in DOMAIN stats.by_date : k[1] = "week"}

\* C22 as stated: a rollup removes every weekly bucket whose week started more
\* than 90 days ago, what it then holds under that key being only the daily
\* buckets it rolls into that week, and creates or extends the monthly bucket
\* of the month that week started in; a weekly bucket whose week started at
\* most 90 days ago stays, with its counters.
C22_OldWeeksToMonth ==
    LET after == rollup_old_dates(stats.by_date, today)
        joining(w) == {d \in DailyKeys : DaysOld(d) > DAILY_DAYS
                                         /\ DaysOld(d) <= WEEKLY_DAYS /\ WeekKey(d[2]) = w}
    IN \A w \in WeeklyKeys :
        IF today - IsoWeekStart(w) > WEEKLY_DAYS
        THEN /\ w \in DOMAIN after => after[w] = SumBuckets(stats.by_date, joining(w))
             /\ MonthKey(IsoWeekStart(w)) \in DOMAIN after
             /\ \A f \in BucketFields :
                    after[MonthKey(IsoWeekStart(w))][f] >= stats.by_date[w][f]
        ELSE /\ w \in DOMAIN after
             /\ after[w] = aggregate_into_bucket(stats.by_date[w],
                                                 SumBuckets(stats.by_date, joining(w)))

\* No daily bucket is older than 30 days and no weekly bucket's week started
\* more than 90 days ago.
PartitionedByAge ==
    \A k \in DOMAIN stats.by_date :
        /\ k[1] = "day" => today - k[2] <= DAILY_DAYS
        /\ k[1] = "week" => today - IsoWeekStart(k) <= WEEKLY_DAYS

\* C23 as stated: every persist of the state file leaves the date/period keys
\* partitioned by age.
C23_PersistPartitionsByAge ==
    [][(Persist \/ \E usage \in Usages : RecordCost(usage)) => PartitionedByAge']_vars

RECURSIVE HistoryCost(_)
\* The cost summed over the records of a ticket history.
HistoryCost(h) ==
    IF h = <<>> THEN 0 ELSE h[1].usage.total_cost_cents + HistoryCost(Tail(h))

\* C24 as stated: the cost of the stats buckets equals the cost of the retained
\* history records, whether the buckets are taken together (the global bucket
\* plus the date/period buckets) or as two views of the same tickets (the
\* global bucket, and the date/period buckets together).
C24_BucketCostMatchesHistory ==
    LET dated == SumBuckets(stats.by_date, DOMAIN stats.by_date).total_cost_cents
        retained == HistoryCost(stats.ticket_history)
    IN \/ stats.global.total_cost_cents + dated = retained
       \/ stats.global.total_cost_cents = retained /\ dated = retained

\* ------------------------------------------------------------------- text
\* Strings are sequences of characters; the regular expressions of the source
\* are written out as matchers over them.
Char(s, i) == SubSeq(s, i, i)
DigitChars == "0123456789"
IsDigit(s, i) == i <= Len(s) /\ \E k \in 1..10 : Char(DigitChars, k) = Char(s, i)
DigitValue(c) == (CHOOSE k \in 1..10 : Char(DigitChars, k) = c) - 1
IsSpace(s, i) == i <= Len(s) /\ Char(s, i) \in {" ", "\n", "\t"}
UpperCase == "ABCDEFGHIJKLMNOPQRSTUVWXYZ"
LowerCase == "abcdefghijklmnopqrstuvwxyz"
\* str.lower() of one character
Lower(c) ==
    IF \E k \in 1..26 : Char(UpperCase, k) = c
    THEN Char(LowerCase, CHOOSE k \in 1..26 : Char(UpperCase, k) = c)
    ELSE c

\* The literal lit stands at position i of s; HasAtI ignores case (lit is in
\* lower case).
HasAt(s, i, lit) == i + Len(lit) - 1 <= Len(s) /\ SubSeq(s, i, i + Len(lit) - 1) = lit
HasAtI(s, i, lit) ==
    /\ i + Len(lit) - 1 <= Len(s)
    /\ \A j \in 1..Len(lit) : Lower(Char(s, i + j - 1)) = Char(lit, j)

RECURSIVE AfterDigits(_, _)
\* \d*: the position after the digits that start at i
AfterDigits(s, i) == IF IsDigit(s, i) THEN AfterDigits(s, i + 1) ELSE i
RECURSIVE AfterSpaces(_, _)
\* \s*: the position after the white space that starts at i
AfterSpaces(s, i) == IF IsSpace(s, i) THEN AfterSpaces(s, i + 1) ELSE i

RECURSIVE ToInt(_)
\* int() of a string of digits
ToInt(d) ==
    IF Len(d) = 0 THEN 0
    ELSE 10 * ToInt(SubSeq(d, 1, Len(d) - 1)) + DigitValue(Char(d, Len(d)))

RECURSIVE Decimal(_)
\* str() of a natural number
Decimal(n) ==
    IF n < 10 THEN Char(DigitChars, n + 1)
    ELSE Decimal(n \div 10) \o Char(DigitChars, (n % 10) + 1)

\* re.search: the leftmost position of s where the matcher succeeds, 0 if none.
Leftmost(s, MatchesAt(_, _)) ==
    IF \E i \in 1..Len(s) : MatchesAt(s, i)
    THEN CHOOSE i \in 1..Len(s) : MatchesAt(s, i) /\ \A j \in 1..(i - 1) : ~MatchesAt(s, j)
    ELSE 0

\* ------------------------------------------------------- the error classifier
\* PROMPT_TOO_LONG_DETAILED_PATTERN, r"prompt is too long: (\d+) tokens? > (\d+) maximum",
\* at position i: whether it matches and its two groups.
DetailedAt(s, i) ==
    LET a == i + Len("prompt is too long: ")
        b == AfterDigits(s, a)
        c == IF HasAt(s, b, " tokens") THEN b + Len(" tokens") ELSE b + Len(" token")
        d == c + Len(" > ")
        e == AfterDigits(s, d)
        ok == /\ HasAt(s, i, "prompt is too long: ") /\ b > a /\ HasAt(s, b, " token")
              /\ HasAt(s, c, " > ") /\ e > d /\ HasAt(s, e, " maximum")
    IN [ok |-> ok,
        tokens |-> IF ok THEN SubSeq(s, a, b - 1) ELSE "",
        maximum |-> IF ok THEN SubSeq(s, d, e - 1) ELSE ""]
DetailedMatches(s, i) == DetailedAt(s, i).ok

\* PROMPT_TOO_LONG_SIMPLE_PATTERN, RATE_LIMIT_PATTERN, RATE_LIMIT_USER_PATTERN
SimpleMatches(s, i) == HasAtI(s, i, "prompt is too long")
RateLimitMatches(s, i) == HasAt(s, i, "rate_limit_error")
RateLimitUserMatches(s, i) == HasAtI(s, i, "you've hit your limit")

\* r"resets?\s+": the position after it when it stands at i, else 0.
AfterResets(s, i) ==
    LET a == i + Len("reset")
        b == IF HasAtI(s, a, "s") THEN a + 1 ELSE a
    IN IF HasAtI(s, i, "reset") /\ AfterSpaces(s, b) > b THEN AfterSpaces(s, b) ELSE 0

\* The alternatives of the unit group, in the order the pattern tries them.
UnitAlternatives == <<"hours", "hour", "minutes", "minute", "h", "m", "days", "day", "d">>

\* RATE_LIMIT_RESET_DURATION_PATTERN,
\* r"resets?\s+(?:in\s+)?(\d+)\s*(hours?|minutes?|h|m|days?|d)", ignoring case:
\* DurationAfter is the part after r"resets?\s+", which ends before c.
DurationAfter(s, c) ==
    LET in_ == AfterSpaces(s, c + Len("in"))
        d == IF HasAtI(s, c, "in") /\ in_ > c + Len("in") /\ IsDigit(s, in_) THEN in_ ELSE c
        e == AfterDigits(s, d)
        f == AfterSpaces(s, e)
        alts == {k \in 1..Len(UnitAlternatives) : HasAtI(s, f, UnitAlternatives[k])}
        ok == c > 0 /\ e > d /\ alts # {}
    IN [ok |-> ok,
        value |-> IF ok THEN SubSeq(s, d, e - 1) ELSE "",
        unit |-> IF ok
                 THEN LET first == UnitAlternatives[CHOOSE k \in alts : \A j \in alts : k <= j]
                      IN SubSeq(s, f, f + Len(first) - 1)
                 ELSE ""]
DurationAt(s, i) == DurationAfter(s, AfterResets(s, i))
DurationMatches(s, i) == DurationAt(s, i).ok

\* RATE_LIMIT_RESET_TIME_PATTERN,
\* r"resets?\s+(\d{1,2})(?::(\d{2}))?\s*(am|pm)\s*(?:\(?(UTC|GMT)?\)?)?", ignoring
\* case: one or two digits, the minutes if a colon and two digits follow, then
\* am or pm; what follows is optional and not used. TimeAfter is the part
\* after r"resets?\s+", which ends before c.
TimeAfter(s, c) ==
    LET d == AfterDigits(s, c)
        mm == HasAt(s, d, ":") /\ IsDigit(s, d + 1) /\ IsDigit(s, d + 2)
        e == AfterSpaces(s, IF mm THEN d + 3 ELSE d)
        ok == c > 0 /\ d - c \in {1, 2} /\ (HasAtI(s, e, "am") \/ HasAtI(s, e, "pm"))
    IN [ok |-> ok,
        hour |-> IF ok THEN SubSeq(s, c, d - 1) ELSE "",
        minute |-> IF ok /\ mm THEN SubSeq(s, d + 1, d + 2) ELSE "",
        am_pm |-> IF ok /\ HasAtI(s, e, "am") THEN "am" ELSE "pm"]
TimeAt(s, i) == TimeAfter(s, AfterResets(s, i))
TimeMatches(s, i) == TimeAt(s, i).ok

\* An instant: the UTC date (a day number), the time of day, and whether a
\* fraction of a second has gone by since that second began.
DayOfMonth(d) == d - MonthStart(YearOf(d), MonthOf(d)) + 1
SecondOfDay(t) == 3600 * t.hour + 60 * t.minute + t.second

\* What the functions below return or raise: a kind and, by kind, the token
\* counts of PromptTooLongError or the reset_seconds of RateLimitError (-1: None).
Outcome(kind, tokens, maximum, reset_seconds) ==
    [kind |-> kind, tokens |-> tokens, maximum |-> maximum, reset_seconds |-> reset_seconds]
Returns(reset_seconds) == Outcome("returns", -1, -1, reset_seconds)
Raises(kind) == Outcome(kind, -1, -1, NoReset)

\* Mutant: a unit that starts with "m" counts as hours.
UnitSeconds_MinutesAsHours(unit) ==
    CASE Lower(Char(unit, 1)) = "d" -> 86400
      [] OTHER -> 3600

\* unit.lower().startswith("h"), ("m"), ("d"): the seconds of one unit.
UnitSeconds(unit) ==
    CASE Lower(Char(unit, 1)) = "h" -> 3600
      [] Lower(Char(unit, 1)) = "m" -> 60
      [] Lower(Char(unit, 1)) = "d" -> 86400

\* The duration branch of _parse_rate_limit_reset_time: the match dur in seconds.
duration_reset(dur) == Returns(ToInt(dur.value) * UnitSeconds(dur.unit))

\* The clock-time branch of _parse_rate_limit_reset_time: the seconds from the
\* instant now to the next time the clock of the match tim comes round.
time_reset(tim, now) ==
    LET h12 == ToInt(tim.hour)
        hour == IF tim.am_pm = "pm" /\ h12 # 12 THEN h12 + 12
                ELSE IF tim.am_pm = "am" /\ h12 = 12 THEN 0 ELSE h12
        minute == ToInt(tim.minute)
        reset == 3600 * hour + 60 * minute
        \* reset_time <= now: the fraction of now only adds to it
        past == reset <= SecondOfDay(now)
        whole == (IF past THEN 86400 ELSE 0) + reset - SecondOfDay(now)
    IN IF hour > 23 \/ minute > 59 THEN Raises("ValueError")
       ELSE IF past /\ DayOfMonth(now.day) + 1 > MonthLen(YearOf(now.day), MonthOf(now.day))
       THEN Raises("ValueError")
       \* int(delta.total_seconds()) rounds towards zero
       ELSE Returns(IF now.fraction /\ whole > 0 THEN whole - 1 ELSE whole)

\* ClaudeRunner._parse_rate_limit_reset_time at the instant now.
parse_rate_limit_reset_time(text, now) ==
    IF Leftmost(text, DurationMatches) # 0
    THEN duration_reset(DurationAt(text, Leftmost(text, DurationMatches)))
    ELSE IF Leftmost(text, TimeMatches) # 0
    THEN time_reset(TimeAt(text, Leftmost(text, TimeMatches)), now)
    ELSE Returns(NoReset)

\* raise RateLimitError(..., reset_seconds=reset_seconds), unless computing
\* reset_seconds raised.
raise_rate_limit(reset) ==
    IF reset.kind = "returns" THEN Outcome("RateLimit", -1, -1, reset.reset_seconds) ELSE reset

\* raise PromptTooLongError(..., tokens=..., maximum=...) from the groups of
\* the match detailed.
raise_prompt_too_long(detailed) ==
    Outcome("PromptTooLong", ToInt(detailed.tokens), ToInt(detailed.maximum), NoReset)

\* ClaudeRunner._check_for_errors: the exception it raises, or "returns".
check_for_errors(stderr, stdout, now) ==
    LET combined == stderr \o stdout
    IN IF Leftmost(combined, DetailedMatches) # 0
       THEN raise_prompt_too_long(DetailedAt(combined, Leftmost(combined, DetailedMatches)))
       ELSE IF Leftmost(combined, SimpleMatches) # 0
       THEN Raises("PromptTooLong")
       ELSE IF Leftmost(combined, RateLimitMatches) # 0
               \/ Leftmost(combined, RateLimitUserMatches) # 0
       THEN raise_rate_limit(parse_rate_limit_reset_time(combined, now))
       ELSE Returns(NoReset)

\* raise RuntimeError(...) after the classifier has returned.
raise_generic(classified) ==
    IF classified.kind = "returns" THEN Raises("Generic") ELSE classified

\* The end of ClaudeRunner._run_once, once the process has exited: a non-zero
\* exit goes through the classifier and is a generic failure if that returns;
\* exit code 0 goes to the output parser.
run_once_exit(returncode, stderr, stdout, now) ==
    IF returncode # 0
    THEN raise_generic(check_for_errors(stderr, stdout, now))
    ELSE Raises("ok")

\* ------------------------------------------------ the parsers, one call each
\* SpecParse: one call of a parsing function on an input drawn from the sets
\* below. A text is made of fragments, each with the signature it carries and
\* the numbers it was written from.
MaxParts == 3

Fragment(sig, text, a, b) == [sig |-> sig, text |-> text, a |-> a, b |-> b]
Noise == Fragment("none", "boom", 0, 0)
Detailed(tokens, word, maximum) ==
    Fragment("detailed",
             "prompt is too long: " \o Decimal(tokens) \o word \o Decimal(maximum) \o " maximum",
             tokens, maximum)
Simple == Fragment("simple", "Prompt is too long", 0, 0)
RateLimited == Fragment("rate_limit", "rate_limit_error", 0, 0)
HitLimit == Fragment("rate_limit", "You've hit your limit", 0, 0)
\* "resets in N unit", the unit worth `seconds`
ResetsIn(n, unit, seconds) ==
    Fragment("duration", "resets in " \o Decimal(n) \o " " \o unit, n, seconds)
ResetsAt8pm == Fragment("clock", "resets 8pm (UTC)", 20, 0)

\* The units of a duration phrase and the seconds the spec gives each.
Units ==
    {<<"h", 3600>>, <<"hour", 3600>>, <<"hours", 3600>>,
     <<"m", 60>>, <<"minute", 60>>, <<"minutes", 60>>, <<"Minutes", 60>>,
     <<"d", 86400>>, <<"day", 86400>>, <<"days", 86400>>}
DurationValues == {0, 1, 2, 30, 120}

RECURSIVE Join(_)
\* The fragments of a text, separated by " - ".
Join(parts) ==
    IF parts = <<>> THEN ""
    ELSE IF Len(parts) = 1 THEN parts[1].text
    ELSE parts[1].text \o " - " \o Join(Tail(parts))

Instant(day, hour, minute, second, fraction) ==
    [day |-> day, hour |-> hour, minute |-> minute, second |-> second, fraction |-> fraction]
\* 2024-01-15 09:30:00 and 2024-01-31 21:00:00
MidMonthMorning == Instant(MonthStart(2024, 1) + 14, 9, 30, 0, FALSE)
MonthEndEvening == Instant(MonthStart(2024, 1) + 30, 21, 0, 0, FALSE)
\* Dates in the middle and at the end of a month, of a February and of a year.
Instants ==
    {Instant(day, hour, minute, second, fraction) :
        day \in {MonthStart(2024, 1) + 29, MonthStart(2024, 1) + 30, MonthStart(2024, 2) + 27,
                 MonthStart(2024, 2) + 28, MonthStart(2024, 12) + 30, MonthStart(2025, 2) + 27},
        hour \in {0, 19, 20, 21, 23}, minute \in {0, 59}, second \in {0, 59},
        fraction \in BOOLEAN}

\* One exit of the agent process: its exit code, the fragments of its output,
\* how many of them went to stderr, and the instant.
ProcessExit(returncode, parts, split, now) ==
    [fn |-> "run_once", returncode |-> returncode, parts |-> parts, split |-> split, now |-> now]
Stderr(exit) == Join(SubSeq(exit.parts, 1, exit.split))
Stdout(exit) == Join(SubSeq(exit.parts, exit.split + 1, Len(exit.parts)))

\* Any mix of signatures, on any exit code.
MixedExits ==
    LET frags == {Noise, Detailed(206453, " tokens > ", 200000), Detailed(1, " token > ", 2),
                  Simple, RateLimited, HitLimit, ResetsIn(2, "hours", 3600), ResetsAt8pm}
    IN {ProcessExit(rc, parts, split, now) :
            rc \in {0, 1}, split \in {0, 1}, now \in {MidMonthMorning, MonthEndEvening},
            parts \in UNION {[1..n -> frags] : n \in 1..MaxParts}}
\* A throttling message with a duration phrase, alone or with a clock-time
\* phrase before or after it.
DurationExits ==
    {ProcessExit(1, parts, 1, MidMonthMorning) :
        parts \in UNION {{<<carrier, ResetsIn(n, u[1], u[2])>>,
                          <<carrier, ResetsAt8pm, ResetsIn(n, u[1], u[2])>>,
                          <<carrier, ResetsIn(n, u[1], u[2]), ResetsAt8pm>>} :
                         carrier \in {RateLimited, HitLimit}, n \in DurationValues, u \in Units}}
\* The user-facing message with the clock-time phrase, at any instant.
ClockExits == {ProcessExit(1, <<HitLimit, ResetsAt8pm>>, 1, now) : now \in Instants}

\* The lines of the agent's output: text that is not a JSON object, or an
\* object whose "session_id" and "result" keys are absent, null or a string.
MaxLines == 3
Absent == "absent"
Null == "null"
OutputLines ==
    {[json |-> FALSE, session_id |-> Absent, result |-> Absent]}
        \cup [json : {TRUE}, session_id : {Absent, Null, "s1", "s2"},
              result : {Absent, Null, "A", "B"}]
Outputs ==
    {[fn |-> "parse_output", lines |-> lines] :
        lines \in UNION {[1..n -> OutputLines] : n \in 1..MaxLines}}

RECURSIVE ScanOutput(_, _, _, _)
\* The loop of _parse_output over the lines in reverse, from line i down,
\* with the session id and the summary it holds so far.
ScanOutput(lines, i, session_id, summary) ==
    IF i = 0 THEN [session_id |-> session_id, summary |-> summary]
    ELSE IF ~lines[i].json THEN ScanOutput(lines, i - 1, session_id, summary)
    ELSE LET sid == IF lines[i].session_id # Absent THEN lines[i].session_id ELSE session_id
             sum == IF lines[i].result # Absent THEN lines[i].result ELSE summary
         IN IF sid # Null
            THEN [session_id |-> sid, summary |-> sum]
            ELSE ScanOutput(lines, i - 1, sid, sum)

\* ClaudeRunner._parse_output
parse_output(lines) == ScanOutput(lines, Len(lines), Null, "Task completed")

\* r"\$?(\d+)\.(\d{2})" at position i: whether it matches and its two groups.
CostAt(s, i) ==
    LET a == IF HasAt(s, i, "$") THEN i + 1 ELSE i
        b == AfterDigits(s, a)
        ok == b > a /\ HasAt(s, b, ".") /\ IsDigit(s, b + 1) /\ IsDigit(s, b + 2)
    IN [ok |-> ok,
        dollars |-> IF ok THEN SubSeq(s, a, b - 1) ELSE "",
        cents |-> IF ok THEN SubSeq(s, b + 1, b + 2) ELSE ""]
CostMatches(s, i) == CostAt(s, i).ok

\* r"(\d+)\s*" followed by the word, ignoring case: digits, white space, word.
NumberBefore(s, i, word) ==
    AfterDigits(s, i) > i /\ HasAtI(s, AfterSpaces(s, AfterDigits(s, i)), word)
CentsMatches(s, i) == NumberBefore(s, i, "cent")
HoursMatches(s, i) == NumberBefore(s, i, "h")
MinutesMatches(s, i) == NumberBefore(s, i, "m")
SecondsMatches(s, i) == NumberBefore(s, i, "s")
\* r"\+(\d+)" and r"-(\d+)"
AddedMatches(s, i) == HasAt(s, i, "+") /\ IsDigit(s, i + 1)
RemovedMatches(s, i) == HasAt(s, i, "-") /\ IsDigit(s, i + 1)

\* int() of the digits that start at position i.
NumberAt(s, i) == ToInt(SubSeq(s, i, AfterDigits(s, i) - 1))

\* StateManager._parse_cost
parse_cost(cost_str) ==
    LET cost == CostAt(cost_str, Leftmost(cost_str, CostMatches))
    IN IF Leftmost(cost_str, CostMatches) # 0
       THEN ToInt(cost.dollars) * 100 + ToInt(cost.cents)
       ELSE IF Leftmost(cost_str, CentsMatches) # 0
       THEN NumberAt(cost_str, Leftmost(cost_str, CentsMatches))
       ELSE 0

\* Mutant: the minutes are added as seconds.
parse_duration_MinutesAsSeconds(duration_str) ==
    (IF Leftmost(duration_str, HoursMatches) # 0
     THEN NumberAt(duration_str, Leftmost(duration_str, HoursMatches)) * 3600 ELSE 0)
    + (IF Leftmost(duration_str, MinutesMatches) # 0
       THEN NumberAt(duration_str, Leftmost(duration_str, MinutesMatches)) ELSE 0)
    + (IF Leftmost(duration_str, SecondsMatches) # 0
       THEN NumberAt(duration_str, Leftmost(duration_str, SecondsMatches)) ELSE 0)

\* StateManager._parse_duration
parse_duration(duration_str) ==
    (IF Leftmost(duration_str, HoursMatches) # 0
     THEN NumberAt(duration_str, Leftmost(duration_str, HoursMatches)) * 3600 ELSE 0)
    + (IF Leftmost(duration_str, MinutesMatches) # 0
       THEN NumberAt(duration_str, Leftmost(duration_str, MinutesMatches)) * 60 ELSE 0)
    + (IF Leftmost(duration_str, SecondsMatches) # 0
       THEN NumberAt(duration_str, Leftmost(duration_str, SecondsMatches)) ELSE 0)

\* StateManager._parse_code_changes
parse_code_changes(changes_str) ==
    [added |-> IF Leftmost(changes_str, AddedMatches) # 0
               THEN NumberAt(changes_str, Leftmost(changes_str, AddedMatches) + 1) ELSE 0,
     removed |-> IF Leftmost(changes_str, RemovedMatches) # 0
                 THEN NumberAt(changes_str, Leftmost(changes_str, RemovedMatches) + 1) ELSE 0]

\* The strings of a cost report, written from the numbers they stand for:
\* "$D.CC", "Hh Mm Ss" with any of its parts left out (-1), "+A -R".
CostString(dollars, cents) ==
    "$" \o Decimal(dollars) \o "." \o (IF cents < 10 THEN "0" ELSE "") \o Decimal(cents)
DurationString(h, m, s) ==
    LET hh == IF h < 0 THEN "" ELSE Decimal(h) \o "h"
        mm == IF m < 0 THEN "" ELSE Decimal(m) \o "m"
        ss == IF s < 0 THEN "" ELSE Decimal(s) \o "s"
        hm == hh \o (IF h >= 0 /\ m >= 0 THEN " " ELSE "") \o mm
    IN hm \o (IF (h >= 0 \/ m >= 0) /\ s >= 0 THEN " " ELSE "") \o ss
DurationSeconds(h, m, s) ==
    (IF h < 0 THEN 0 ELSE 3600 * h) + (IF m < 0 THEN 0 ELSE 60 * m) + (IF s < 0 THEN 0 ELSE s)
ChangesString(added, removed) == "+" \o Decimal(added) \o " -" \o Decimal(removed)

\* The arguments of one record_cost call, and the amounts they stand for.
CostReports ==
    {[fn |-> "record_cost",
      total_cost |-> CostString(d, c), cost_cents |-> 100 * d + c,
      api_duration |-> DurationString(h, m, s), api_seconds |-> DurationSeconds(h, m, s),
      wall_duration |-> DurationString(w[1], w[2], w[3]),
      wall_seconds |-> DurationSeconds(w[1], w[2], w[3]),
      code_changes |-> ChangesString(a, r), lines_added |-> a, lines_removed |-> r] :
        d \in {0, 1, 12}, c \in {0, 5, 50, 99},
        h \in {-1, 0, 1}, m \in {-1, 2, 45}, s \in {-1, 7, 30},
        w \in {<<-1, 5, 15>>, <<2, -1, -1>>}, a \in {0, 100}, r \in {0, 50}}

\* The parsing at the top of record_cost.
ParsedUsage(report) ==
    [f \in UsageFields |->
        CASE f = "total_cost_cents" -> parse_cost(report.total_cost)
          [] f = "total_api_duration_seconds" -> parse_duration(report.api_duration)
          [] f = "total_wall_duration_seconds" -> parse_duration(report.wall_duration)
          [] f = "total_lines_added" -> parse_code_changes(report.code_changes).added
          [] f = "total_lines_removed" -> parse_code_changes(report.code_changes).removed
          [] OTHER -> 0]

\* f"{x:.1f}" of x = ms / 1000 seconds, for ms that is not half-way between
\* two tenths of a second.
OneDecimal(ms) ==
    Decimal(((ms + 50) \div 100) \div 10) \o "." \o Decimal(((ms + 50) \div 100) % 10)

\* ClaudeRunner._format_duration_ms
format_duration_ms(ms) ==
    IF ms < 1000 THEN Decimal(ms) \o "ms"
    ELSE IF ms < 60000 THEN OneDecimal(ms) \o "s"
    ELSE IF ms < 3600000
    THEN Decimal(ms \div 60000) \o "m " \o OneDecimal(ms % 60000) \o "s"
    ELSE Decimal(ms \div 3600000) \o "h " \o Decimal((ms \div 60000) % 60) \o "m"

\* The durations a cost query reports, in milliseconds: some of each tier of
\* the formatter.
DurationMillis ==
    {1, 500, 999, 1000, 1500, 59000, 59960, 60000, 90000, 379700, 3599000,
     3600000, 5400000, 7259000}
CostQueries ==
    {[fn |-> "cost_query", duration_api_ms |-> a, duration_ms |-> w] :
        a \in DurationMillis, w \in {90000, 5400000}}

\* The CostInfo _run_cost builds from the JSON line of the /cost output (no
\* cost, no code changes), as record_cost parses it.
CostInfoUsage(data) ==
    [f \in UsageFields |->
        CASE f = "total_api_duration_seconds" ->
                parse_duration(format_duration_ms(data.duration_api_ms))
          [] f = "total_wall_duration_seconds" ->
                parse_duration(format_duration_ms(data.duration_ms))
          [] OTHER -> 0]

InitParse ==
    /\ run = NoRun
    /\ calls = <<>>
    /\ PollInit
    /\ project_of = [c \in Cards |-> "pA"]
    /\ stats = EmptyStats
    /\ today = MonthStart(2024, 2) + 25
    /\ clock = 0
    /\ passes = 0
    /\ \/ given \in MixedExits \cup DurationExits \cup ClockExits
       \/ given \in Outputs
       \/ given \in CostReports
       \/ given \in CostQueries
    /\ returned = NoRet
    /\ called = FALSE

\* The agent process exits and _run_once looks at its exit code and output.
RunOnceExit ==
    /\ given.fn = "run_once" /\ ~called
    /\ called' = TRUE
    /\ returned' = run_once_exit(given.returncode, Stderr(given), Stdout(given), given.now)
    /\ UNCHANGED <<given, runVars, pollVars, ledgerVars>>

\* _run_once parses the output of a process that exited with code 0.
ParseOutput ==
    /\ given.fn = "parse_output" /\ ~called
    /\ called' = TRUE
    /\ returned' = parse_output(given.lines)
    /\ UNCHANGED <<given, runVars, pollVars, ledgerVars>>

\* record_cost is called with the strings of a cost report.
RecordCostCall ==
    /\ given.fn = "record_cost" /\ ~called
    /\ called' = TRUE
    /\ returned' = NoRet
    /\ clock' = clock + 1
    /\ stats' = record_cost(stats, "c1", project_of["c1"], ParsedUsage(given), today, clock')
    /\ UNCHANGED <<given, today, passes, runVars, pollVars>>

\* _run_cost renders the durations of the cost query, and
\* process_card_for_project hands them to record_cost.
CostQueryRecorded ==
    /\ given.fn = "cost_query" /\ ~called
    /\ called' = TRUE
    /\ returned' = [kind |-> "returns", api_duration |-> format_duration_ms(given.duration_api_ms),
                    wall_duration |-> format_duration_ms(given.duration_ms)]
    /\ clock' = clock + 1
    /\ stats' = record_cost(stats, "c1", project_of["c1"], CostInfoUsage(given), today, clock')
    /\ UNCHANGED <<given, today, passes, runVars, pollVars>>

NextParse ==
    \/ RunOnceExit
    \/ ParseOutput
    \/ RecordCostCall
    \/ CostQueryRecorded
SpecParse == InitParse /\ [][NextParse]_vars

\* --------------------------------------------------- claims about parsing
\* The signatures the output of the exit carries, and its first fragment with
\* a given signature.
Carries(exit, sig) == \E i \in 1..Len(exit.parts) : exit.parts[i].sig = sig
FirstPart(exit, sig) ==
    exit.parts[CHOOSE i \in 1..Len(exit.parts) :
                    /\ exit.parts[i].sig = sig
                    /\ \A j \in 1..(i - 1) : exit.parts[j].sig # sig]

\* C25 as stated: on a non-zero exit a context-overflow signature makes the
\* failure a ContextOverflow, with the counts of the first detailed signature if
\* there is one and without counts otherwise, whatever else the output holds;
\* failing that a throttling signature makes it Throttled; failing that it is
\* a GenericFailure. Exit code 0 is never classified.
C25_ClassifierPriority ==
    (called /\ given.fn = "run_once") =>
        IF given.returncode = 0 THEN returned.kind = "ok"
        ELSE IF Carries(given, "detailed")
        THEN /\ returned.kind = "PromptTooLong"
             /\ returned.tokens = FirstPart(given, "detailed").a
             /\ returned.maximum = FirstPart(given, "detailed").b
        ELSE IF Carries(given, "simple")
        THEN returned.kind = "PromptTooLong" /\ returned.tokens = -1 /\ returned.maximum = -1
        ELSE IF Carries(given, "rate_limit") THEN returned.kind = "RateLimit"
        ELSE returned.kind = "Generic"

\* The seconds from the instant to 20:00 UTC of the same day (positive before
\* 20:00) or of the next day, whole seconds rounded down.
Until8pm(now, days) ==
    86400 * days + 20 * 3600 - SecondOfDay(now) - (IF now.fraction THEN 1 ELSE 0)
Before8pm(now) == SecondOfDay(now) < 20 * 3600
After8pm(now) == SecondOfDay(now) > 20 * 3600 \/ (SecondOfDay(now) = 20 * 3600 /\ now.fraction)

\* C26 as stated: the message "resets 8pm (UTC)" always yields a reset time:
\* the seconds until 20:00 UTC of the same day when evaluated before 20:00, of
\* the next day when evaluated after 20:00.
C26_ClockTimeReset ==
    (called /\ given.fn = "run_once" /\ given.parts = <<HitLimit, ResetsAt8pm>>
        /\ given.returncode # 0) =>
        /\ Before8pm(given.now) =>
            returned.kind = "RateLimit" /\ returned.reset_seconds = Until8pm(given.now, 0)
        /\ After8pm(given.now) =>
            returned.kind = "RateLimit" /\ returned.reset_seconds = Until8pm(given.now, 1)

\* C27: a throttling message with a duration phrase "resets in N unit" yields
\* N times the seconds of the unit (3600 for h, hour(s), 60 for m, minute(s),
\* 86400 for d, day(s)), whether or not a clock-time phrase stands before or
\* after it.
C27_DurationReset ==
    (called /\ given.fn = "run_once" /\ given.returncode # 0
        /\ Carries(given, "rate_limit") /\ Carries(given, "duration")
        /\ ~Carries(given, "detailed") /\ ~Carries(given, "simple")) =>
        /\ returned.kind = "RateLimit"
        /\ returned.reset_seconds =
                FirstPart(given, "duration").a * FirstPart(given, "duration").b

\* "resets in 30 minutes" after a clock-time phrase gave 1800 seconds.
C27_Witness ==
    /\ called
    /\ given.fn = "run_once"
    /\ given.parts = <<HitLimit, ResetsAt8pm, ResetsIn(30, "minutes", 60)>>
    /\ returned.reset_seconds = 1800

\* The value under key in the last JSON line that has a non-null one, or
\* dflt when no line has.
LastNonNull(lines, key, dflt) ==
    LET having == {i \in 1..Len(lines) :
                      lines[i].json /\ lines[i][key] \notin {Absent, Null}}
    IN IF having = {} THEN dflt
       ELSE lines[CHOOSE i \in having : \A j \in having : j <= i][key]

\* C28 as stated: the parsed session handle is the last non-null session_id of
\* the output and the parsed summary its last non-null result, "Task completed"
\* when there is none.
C28_ParseOutputIsFold ==
    (called /\ given.fn = "parse_output") =>
        /\ returned.session_id = LastNonNull(given.lines, "session_id", Null)
        /\ returned.summary = LastNonNull(given.lines, "result", "Task completed")

\* ------------------------------------------------- claims about the loop (2)
\* No other task of t's project holds the project's lock or waits for it.
AloneInProject(t) ==
    \A u \in Cards \ {t} :
        tasks[u].project = tasks[t].project => tasks[u].pc \in {"free", "created", "done"}

\* C29: a task that starts while no other task of its own project holds or
\* awaits the project's lock takes the lock and enters its run at once,
\* whatever the tasks of the other projects are doing.
C29_ProjectsRunConcurrently ==
    [][\A t \in Cards : (TaskStart(t) /\ AloneInProject(t)) => tasks'[t].pc = "run"]_vars

\* The tasks of two projects are inside run() at once, one of them in its
\* backoff sleep.
C29_Witness ==
    /\ tasks["c1"].project # tasks["c2"].project
    /\ tasks["c1"].pc = "run" /\ tasks["c1"].run.pc = "sleep"
    /\ tasks["c2"].pc = "run" /\ tasks["c2"].run.pc = "attempt"

\* The amounts a cost report stands for, by bucket field.
ReportedAmounts(report) ==
    [f \in BucketFields |->
        CASE f = "total_tickets" -> 1
          [] f = "total_cost_cents" -> report.cost_cents
          [] f = "total_api_duration_seconds" -> report.api_seconds
          [] f = "total_wall_duration_seconds" -> report.wall_seconds
          [] f = "total_lines_added" -> report.lines_added
          [] f = "total_lines_removed" -> report.lines_removed
          [] OTHER -> 0]

\* C30: record_cost on an empty ledger with the strings "$D.CC", "Hh Mm Ss"
\* (any of the parts) and "+A -R" leaves 100*D+CC cents, 3600*H+60*M+S seconds
\* and A and R lines in the global bucket, the project's bucket, the bucket of
\* the day and the history record.
C30_RecordCostParses ==
    (called /\ given.fn = "record_cost") =>
        /\ stats.global = ReportedAmounts(given)
        /\ stats.by_project[project_of["c1"]] = ReportedAmounts(given)
        /\ stats.by_date[DayKey(today)] = ReportedAmounts(given)
        /\ \A f \in UsageFields : stats.ticket_history[1].usage[f] = ReportedAmounts(given)[f]

\* "$1.50", "2m 30s", "5m 15s", "+100 -50" gave 150 cents, 150 s, 315 s, 100
\* lines added and 50 removed.
C30_Witness ==
    /\ called
    /\ given.fn = "record_cost"
    /\ given.total_cost = "$1.50" /\ given.api_duration = "2m 30s"
    /\ given.wall_duration = "5m 15s" /\ given.code_changes = "+100 -50"
    /\ stats.global.total_cost_cents = 150
    /\ stats.global.total_api_duration_seconds = 150
    /\ stats.global.total_wall_duration_seconds = 315
    /\ stats.global.total_lines_added = 100
    /\ stats.global.total_lines_removed = 50

\* C31: the session record of a project carries the id of the last task that
\* completed successfully under it. When run() returns for task t, the record
\* names t; a task enters run() without the proactive compaction when the
\* record names it (or holds no handle) and with it when the record names
\* another task or none; set_session without a task id keeps the id on record.
C31_LastTaskRecorded ==
    [][\A t \in Cards :
        LET p == project_of[t]
            stored == sessions[p].session_id
            handle == IF stored # None THEN stored ELSE InitialSession(p)
        IN /\ (tasks[t].pc = "run" /\ tasks'[t].pc = "move")
                 => sessions'[p].last_card_id = t
           /\ (tasks[t].pc \in {"created", "wait_lock"} /\ tasks'[t].pc = "run")
                 => /\ (sessions[p].last_card_id = t \/ handle = None)
                          => tasks'[t].run.pc = "attempt"
                    /\ (sessions[p].last_card_id # t /\ handle # None)
                          => tasks'[t].run.pc = "precompact"
           /\ \A h \in Handles :
                 set_session(p, h, NoCard)[p].last_card_id = sessions[p].last_card_id]_vars

\* ---------------------------------------------- claims about the ledger (2)
\* C32: after any sequence of record_cost calls, persists and days going by,
\* starting from an empty ledger, every counter of the global bucket equals
\* the sum of that counter over the per-project buckets and the sum of it
\* over the date/period buckets (daily, weekly and monthly together).
C32_GlobalEqualsSums ==
    /\ stats.global = SumBuckets(stats.by_project, DOMAIN stats.by_project)
    /\ stats.global = SumBuckets(stats.by_date, DOMAIN stats.by_date)

\* Tickets of two projects were recorded and rolled up: the date/period
\* buckets hold a weekly and a monthly bucket and no daily one.
C32_Witness ==
    /\ Cardinality(DOMAIN stats.by_project) = 2
    /\ stats.global.total_tickets = 2
    /\ \E k \in DOMAIN stats.by_date : k[1] = "week"
    /\ \E k \in DOMAIN stats.by_date : k[1] = "month"
    /\ \A k \in DOMAIN stats.by_date : k[1] # "day"

\* The seconds a duration of ms milliseconds may stand for in the ledger: ms
\* div 1000, give or take the rounding of the tier it is rendered in (a
\* second below an hour, a minute from an hour on).
WithinPrecision(seconds, ms) ==
    LET slack == IF ms < 3600000 THEN 1 ELSE 59
    IN (ms \div 1000) - slack <= seconds /\ seconds <= (ms \div 1000) + slack

\* C33: the durations that _run_cost renders and record_cost parses round-trip:
\* the seconds added to the ledger for a duration of ms milliseconds are
\* ms div 1000 up to the precision of the rendering, in every tier.
C33_DurationRoundTrip ==
    (called /\ given.fn = "cost_query") =>
        /\ WithinPrecision(stats.global.total_api_duration_seconds, given.duration_api_ms)
        /\ WithinPrecision(stats.global.total_wall_duration_seconds, given.duration_ms)

\* ------------------------------------------------- claims about the loop (3)
\* C34: a card is recorded as processed only together with a successful move
\* to the ready list: when the await of move_to_ready ends, however it ends,
\* a card that carries the processed mark is no longer in the TODO list.
C34_ProcessedOnlyWhenMoved ==
    [][\A t \in Cards :
        (tasks[t].pc = "move" /\ tasks'[t].pc # "move")
            => (processed'[t] # 0 => t \notin todo')]_vars

\* C35: once a background task has ended, by return, by an exception or by
\* cancellation at whatever point, its card id is not in _processing_cards;
\* and _running_tasks holds no task whose done-callback has run (the callback
\* runs on the turn of the event loop after the task ends).
C35_EndedTaskLeavesNoTrace ==
    \A t \in Cards :
        /\ tasks[t].pc = "done" => tasks[t].card \notin processing_cards
        /\ t \in running_tasks => tasks[t].pc # "free"

\* A task that has been spawned and has not ended.
IsLive(task) == task.pc \in {"created", "wait_lock", "run", "move", "maint"}

\* C36: at most one live task per card id. The card id of a live task is in
\* _processing_cards, and whenever the loop, going through the cards it
\* fetched, would spawn a task for a card, no live task exists for that card
\* (its earlier task, if any, has ended).
C36_OneLiveTaskPerCard ==
    \A c \in Cards :
        /\ IsLive(tasks[c]) => c \in processing_cards
        /\ (poll_pc = "fetched" /\ c \in DOMAIN poll_cards /\ ShouldSpawn(c))
              => ~IsLive(tasks[c])

\* The loop holds a fetched list with two cards: the task of one is inside
\* run(), so the card is passed over; the task of the other has ended in
\* failure since, so a new task will be spawned for it.
C36_Witness ==
    \E c, d \in Cards :
        /\ poll_pc = "fetched"
        /\ c \in DOMAIN poll_cards /\ d \in DOMAIN poll_cards
        /\ tasks[c].pc = "run" /\ ~ShouldSpawn(c)
        /\ tasks[d].pc = "done" /\ tasks[d].outcome = "failed" /\ ShouldSpawn(d)

\* ------------------------------------------------------------ SpecLive
\* The polling loop with the cards of one project, under fairness: the event
\* loop runs every coroutine that is ready, each subprocess call returns or
\* times out, each sleep and each request to the board ends.
InitLive ==
    /\ Init
    /\ project_of = [c \in Cards |-> "pA"]

\* The next step of the task of card t, whatever await it is suspended at.
TaskStep(t) ==
    \/ TaskStart(t)
    \/ TaskWake(t)
    \/ TaskPreCompactDone(t)
    \/ TaskRunOnceDone(t)
    \/ TaskCompactDone(t)
    \/ TaskSleepDone(t)
    \/ TaskCostDone(t)
    \/ TaskMoveDone(t)
    \/ TaskMaintDone(t)

SpecLive == InitLive /\ [][Next]_vars /\ \A t \in Cards : WF_vars(TaskStep(t))

\* C37: every task that has been spawned gets the lock of its project (unless
\* the loop shuts down first) and ends, and a lock is held only by a task
\* that is inside process_card_for_project's critical section: every exit
\* path releases it, and no task waits for a lock whose holder has ended.
C37_TasksAcquireAndEnd ==
    /\ \A t \in Cards :
          (tasks[t].pc \in {"created", "wait_lock"}) ~> (tasks[t].pc = "run" \/ down)
    /\ \A t \in Cards : IsLive(tasks[t]) ~> ~IsLive(tasks[t])
    /\ [](\A p \in Projects :
            lock[p] # NoCard =>
                tasks[lock[p]].pc \in {"run", "move", "maint"} /\ tasks[lock[p]].project = p)

\* A task waits for the lock of its project while the holder, its run() over,
\* awaits the maintenance run.
C37_Witness ==
    \E t, u \in Cards :
        /\ tasks[t].pc = "wait_lock"
        /\ lock[tasks[t].project] = u
        /\ tasks[u].pc = "maint"

C39_RollupSparesRecentDays ==
    LET after == save(stats, today)
    IN /\ after.global = stats.global
       /\ after.by_project = stats.by_project
       /\ after.ticket_history = stats.ticket_history
       /\ \A k \in DOMAIN stats.by_date :
            (k[1] = "day" /\ today - k[2] <= DAILY_DAYS)
                => k \in DOMAIN after.by_date /\ after.by_date[k] = stats.by_date[k]
       /\ \A n \in 1..(DAILY_DAYS + 1) :
            get_stats_for_period(after, today, n) = get_stats_for_period(stats, today, n)

\* The ledger holds a daily bucket that is 30 days old and one that is 31
\* days old: the rollup moves the second and keeps the first.
C39_Witness ==
    /\ DayKey(today - DAILY_DAYS) \in DOMAIN stats.by_date
    /\ DayKey(today - DAILY_DAYS - 1) \in DOMAIN stats.by_date
    /\ save(stats, today).by_date # stats.by_date

====
